---- MODULE Spec2Model ----
(***************************************************************************)
(* uniqr: order-preserving line deduplication (src/src/lib.rs).            *)
(*                                                                         *)
(* One behaviour of the model is one call of `deduplicate` or of           *)
(* `deduplicate_seekable` on a byte source, a configuration and an empty   *)
(* output sink.  Bytes are integers 0..255; a line, a key and the output   *)
(* are sequences of bytes.  Every loop iteration of the six algorithms is  *)
(* one step, so that the counters and the output can be observed while a   *)
(* run is under way.  The build modelled is the one with the cargo feature *)
(* "disk-backed" enabled (the build in which `use_disk` has any effect).   *)
(***************************************************************************)
EXTENDS Integers, Sequences, FiniteSets, TLC

\* ------------------------------------------------------------------ bounds

\* Most lines of an input drawn by Init.
MaxLines == 3

\* Largest read-cursor position a seekable source is handed over with.
MaxStart == 2

\* ------------------------------------------------------------------- bytes

LF == 10
CR == 13

\* The bytes of "[REMOVED] ".
REMOVED == <<91, 82, 69, 77, 79, 86, 69, 68, 93, 32>>

\* U+FFFD REPLACEMENT CHARACTER in UTF-8, what from_utf8_lossy writes for an
\* invalid byte.
REPLACEMENT == <<239, 191, 189>>

ends_with(s, suffix) ==
    /\ Len(s) >= Len(suffix)
    /\ SubSeq(s, Len(s) - Len(suffix) + 1, Len(s)) = suffix

\* BufRead::read_until(b'\n', &mut line) on source `inp` whose cursor stands
\* after `p` bytes: the bytes up to and including the next LF, or up to the
\* end of the source; the empty sequence (0 bytes read) at the end.
read_until(inp, p) ==
    LET nl == {i \in (p + 1)..Len(inp) : inp[i] = LF}
        e  == IF nl = {} THEN Len(inp)
              ELSE CHOOSE i \in nl : \A j \in nl : i <= j
    IN  SubSeq(inp, p + 1, e)

\* The line with its terminator ("\n" or "\r\n") stripped, for keying.
key_line(line) ==
    IF ends_with(line, <<LF>>)
    THEN IF ends_with(line, <<CR, LF>>)
         THEN SubSeq(line, 1, Len(line) - 2)
         ELSE SubSeq(line, 1, Len(line) - 1)
    ELSE line

\* A byte past the end of `bytes` reads as 0.
safe_get(bytes, i) == IF i <= Len(bytes) THEN bytes[i] ELSE 0

\* The byte at position i is a continuation byte (10xxxxxx).
is_cont(bytes, i) == safe_get(bytes, i) >= 128 /\ safe_get(bytes, i) <= 191

\* core::str::lossy::Utf8Chunks::next (and the validation of
\* std::str::from_utf8) at the head of a non-empty `bytes`: <<n, TRUE>> when a
\* well-formed sequence of n bytes stands there, <<n, FALSE>> when the n bytes
\* at the head are an invalid sequence (the longest prefix of a sequence that
\* the byte after it cannot continue).
utf8_chunk(bytes) ==
    CASE bytes[1] < 128 -> <<1, TRUE>>
      [] bytes[1] >= 194 /\ bytes[1] <= 223 ->
            IF is_cont(bytes, 2) THEN <<2, TRUE>> ELSE <<1, FALSE>>
      [] bytes[1] >= 224 /\ bytes[1] <= 239 ->
            IF ~(\/ bytes[1] = 224 /\ safe_get(bytes, 2) >= 160 /\ safe_get(bytes, 2) <= 191
                 \/ bytes[1] >= 225 /\ bytes[1] <= 236 /\ is_cont(bytes, 2)
                 \/ bytes[1] = 237 /\ safe_get(bytes, 2) >= 128 /\ safe_get(bytes, 2) <= 159
                 \/ bytes[1] >= 238 /\ bytes[1] <= 239 /\ is_cont(bytes, 2))
            THEN <<1, FALSE>>
            ELSE IF ~is_cont(bytes, 3) THEN <<2, FALSE>> ELSE <<3, TRUE>>
      [] bytes[1] >= 240 /\ bytes[1] <= 244 ->
            IF ~(\/ bytes[1] = 240 /\ safe_get(bytes, 2) >= 144 /\ safe_get(bytes, 2) <= 191
                 \/ bytes[1] >= 241 /\ bytes[1] <= 243 /\ is_cont(bytes, 2)
                 \/ bytes[1] = 244 /\ safe_get(bytes, 2) >= 128 /\ safe_get(bytes, 2) <= 143)
            THEN <<1, FALSE>>
            ELSE IF ~is_cont(bytes, 3) THEN <<2, FALSE>>
            ELSE IF ~is_cont(bytes, 4) THEN <<3, FALSE>> ELSE <<4, TRUE>>
      [] OTHER -> <<1, FALSE>>

\* String::from_utf8_lossy: every well-formed sequence is kept, every invalid
\* sequence becomes one U+FFFD.
RECURSIVE from_utf8_lossy(_)
lossy_chunk(bytes, c) ==
    (IF c[2] THEN SubSeq(bytes, 1, c[1]) ELSE REPLACEMENT)
    \o from_utf8_lossy(SubSeq(bytes, c[1] + 1, Len(bytes)))

from_utf8_lossy(bytes) ==
    IF bytes = <<>> THEN <<>> ELSE lossy_chunk(bytes, utf8_chunk(bytes))

\* std::str::from_utf8(..).is_ok(): the bytes are well-formed sequences from
\* end to end.
RECURSIVE from_utf8_ok(_)
valid_chunk(data, c) == c[2] /\ from_utf8_ok(SubSeq(data, c[1] + 1, Len(data)))

from_utf8_ok(data) ==
    IF data = <<>> THEN TRUE ELSE valid_chunk(data, utf8_chunk(data))

\* The char at the head of text (valid UTF-8) that takes w bytes.
next_code_point(text, w) ==
    CASE w = 1 -> text[1]
      [] w = 2 -> (text[1] % 32) * 64 + (text[2] % 64)
      [] w = 3 -> (text[1] % 16) * 4096 + (text[2] % 64) * 64 + (text[3] % 64)
      [] w = 4 -> (text[1] % 8) * 262144 + (text[2] % 64) * 4096
                  + (text[3] % 64) * 64 + (text[4] % 64)

\* str::chars: the chars of text (valid UTF-8), as code points.  w is the
\* width of the char at the head.
RECURSIVE chars(_)
chars_next(text, w) ==
    <<next_code_point(text, w)>> \o chars(SubSeq(text, w + 1, Len(text)))

chars(text) ==
    IF text = <<>> THEN <<>> ELSE chars_next(text, utf8_chunk(text)[1])

\* char::encode_utf8.
encode_utf8(c) ==
    IF c < 128 THEN <<c>>
    ELSE IF c < 2048 THEN <<192 + (c \div 64), 128 + (c % 64)>>
    ELSE IF c < 65536
         THEN <<224 + (c \div 4096), 128 + ((c \div 64) % 64), 128 + (c % 64)>>
         ELSE <<240 + (c \div 262144), 128 + ((c \div 4096) % 64),
                128 + ((c \div 64) % 64), 128 + (c % 64)>>

\* The code points with the property White_Space (Unicode 17.0).
White_Space ==
    {9, 10, 11, 12, 13, 32, 133, 160, 5760} \cup (8192..8202)
    \cup {8232, 8233, 8239, 8287, 12288}

\* char::is_whitespace.
is_whitespace(c) == c \in White_Space

\* str::split_whitespace: the maximal runs of chars that are not whitespace,
\* in order, each as its bytes.  `cur` is the token being collected, w the
\* width of the char at the head of text.
RECURSIVE split_from(_, _)
split_next(text, cur, w) ==
    IF is_whitespace(next_code_point(text, w))
    THEN (IF cur = <<>> THEN <<>> ELSE <<cur>>)
         \o split_from(SubSeq(text, w + 1, Len(text)), <<>>)
    ELSE split_from(SubSeq(text, w + 1, Len(text)), cur \o SubSeq(text, 1, w))

split_from(text, cur) ==
    IF text = <<>>
    THEN IF cur = <<>> THEN <<>> ELSE <<cur>>
    ELSE split_next(text, cur, utf8_chunk(text)[1])

split_whitespace(text) == split_from(text, <<>>)

\* The table of core::unicode::conversions::to_lower (Unicode 17.0), one
\* entry <<first, last, stride, delta>> for the chars first, first + stride,
\* .., last, each of which has the lowercase char + delta.
LOWERCASE_TABLE ==
    {<<65, 90, 1, 32>>, <<192, 214, 1, 32>>, <<216, 222, 1, 32>>, <<256, 302, 2, 1>>,
     <<306, 310, 2, 1>>, <<313, 327, 2, 1>>, <<330, 374, 2, 1>>, <<376, 376, 1, -121>>,
     <<377, 381, 2, 1>>, <<385, 385, 1, 210>>, <<386, 388, 2, 1>>, <<390, 390, 1, 206>>,
     <<391, 391, 1, 1>>, <<393, 394, 1, 205>>, <<395, 395, 1, 1>>, <<398, 398, 1, 79>>,
     <<399, 399, 1, 202>>, <<400, 400, 1, 203>>, <<401, 401, 1, 1>>, <<403, 403, 1, 205>>,
     <<404, 404, 1, 207>>, <<406, 406, 1, 211>>, <<407, 407, 1, 209>>, <<408, 408, 1, 1>>,
     <<412, 412, 1, 211>>, <<413, 413, 1, 213>>, <<415, 415, 1, 214>>, <<416, 420, 2, 1>>,
     <<422, 422, 1, 218>>, <<423, 423, 1, 1>>, <<425, 425, 1, 218>>, <<428, 428, 1, 1>>,
     <<430, 430, 1, 218>>, <<431, 431, 1, 1>>, <<433, 434, 1, 217>>, <<435, 437, 2, 1>>,
     <<439, 439, 1, 219>>, <<440, 440, 1, 1>>, <<444, 444, 1, 1>>, <<452, 452, 1, 2>>,
     <<453, 453, 1, 1>>, <<455, 455, 1, 2>>, <<456, 456, 1, 1>>, <<458, 458, 1, 2>>,
     <<459, 475, 2, 1>>, <<478, 494, 2, 1>>, <<497, 497, 1, 2>>, <<498, 500, 2, 1>>,
     <<502, 502, 1, -97>>, <<503, 503, 1, -56>>, <<504, 542, 2, 1>>, <<544, 544, 1, -130>>,
     <<546, 562, 2, 1>>, <<570, 570, 1, 10795>>, <<571, 571, 1, 1>>, <<573, 573, 1, -163>>,
     <<574, 574, 1, 10792>>, <<577, 577, 1, 1>>, <<579, 579, 1, -195>>, <<580, 580, 1, 69>>,
     <<581, 581, 1, 71>>, <<582, 590, 2, 1>>, <<880, 882, 2, 1>>, <<886, 886, 1, 1>>,
     <<895, 895, 1, 116>>, <<902, 902, 1, 38>>, <<904, 906, 1, 37>>, <<908, 908, 1, 64>>,
     <<910, 911, 1, 63>>, <<913, 929, 1, 32>>, <<931, 939, 1, 32>>, <<975, 975, 1, 8>>,
     <<984, 1006, 2, 1>>, <<1012, 1012, 1, -60>>, <<1015, 1015, 1, 1>>, <<1017, 1017, 1, -7>>,
     <<1018, 1018, 1, 1>>, <<1021, 1023, 1, -130>>, <<1024, 1039, 1, 80>>, <<1040, 1071, 1, 32>>,
     <<1120, 1152, 2, 1>>, <<1162, 1214, 2, 1>>, <<1216, 1216, 1, 15>>, <<1217, 1229, 2, 1>>,
     <<1232, 1326, 2, 1>>, <<1329, 1366, 1, 48>>, <<4256, 4293, 1, 7264>>, <<4295, 4295, 1, 7264>>,
     <<4301, 4301, 1, 7264>>, <<5024, 5103, 1, 38864>>, <<5104, 5109, 1, 8>>, <<7305, 7305, 1, 1>>,
     <<7312, 7354, 1, -3008>>, <<7357, 7359, 1, -3008>>, <<7680, 7828, 2, 1>>, <<7838, 7838, 1, -7615>>,
     <<7840, 7934, 2, 1>>, <<7944, 7951, 1, -8>>, <<7960, 7965, 1, -8>>, <<7976, 7983, 1, -8>>,
     <<7992, 7999, 1, -8>>, <<8008, 8013, 1, -8>>, <<8025, 8031, 2, -8>>, <<8040, 8047, 1, -8>>,
     <<8072, 8079, 1, -8>>, <<8088, 8095, 1, -8>>, <<8104, 8111, 1, -8>>, <<8120, 8121, 1, -8>>,
     <<8122, 8123, 1, -74>>, <<8124, 8124, 1, -9>>, <<8136, 8139, 1, -86>>, <<8140, 8140, 1, -9>>,
     <<8152, 8153, 1, -8>>, <<8154, 8155, 1, -100>>, <<8168, 8169, 1, -8>>, <<8170, 8171, 1, -112>>,
     <<8172, 8172, 1, -7>>, <<8184, 8185, 1, -128>>, <<8186, 8187, 1, -126>>, <<8188, 8188, 1, -9>>,
     <<8486, 8486, 1, -7517>>, <<8490, 8490, 1, -8383>>, <<8491, 8491, 1, -8262>>, <<8498, 8498, 1, 28>>,
     <<8544, 8559, 1, 16>>, <<8579, 8579, 1, 1>>, <<9398, 9423, 1, 26>>, <<11264, 11311, 1, 48>>,
     <<11360, 11360, 1, 1>>, <<11362, 11362, 1, -10743>>, <<11363, 11363, 1, -3814>>, <<11364, 11364, 1, -10727>>,
     <<11367, 11371, 2, 1>>, <<11373, 11373, 1, -10780>>, <<11374, 11374, 1, -10749>>, <<11375, 11375, 1, -10783>>,
     <<11376, 11376, 1, -10782>>, <<11378, 11378, 1, 1>>, <<11381, 11381, 1, 1>>, <<11390, 11391, 1, -10815>>,
     <<11392, 11490, 2, 1>>, <<11499, 11501, 2, 1>>, <<11506, 11506, 1, 1>>, <<42560, 42604, 2, 1>>,
     <<42624, 42650, 2, 1>>, <<42786, 42798, 2, 1>>, <<42802, 42862, 2, 1>>, <<42873, 42875, 2, 1>>,
     <<42877, 42877, 1, -35332>>, <<42878, 42886, 2, 1>>, <<42891, 42891, 1, 1>>, <<42893, 42893, 1, -42280>>,
     <<42896, 42898, 2, 1>>, <<42902, 42920, 2, 1>>, <<42922, 42922, 1, -42308>>, <<42923, 42923, 1, -42319>>,
     <<42924, 42924, 1, -42315>>, <<42925, 42925, 1, -42305>>, <<42926, 42926, 1, -42308>>, <<42928, 42928, 1, -42258>>,
     <<42929, 42929, 1, -42282>>, <<42930, 42930, 1, -42261>>, <<42931, 42931, 1, 928>>, <<42932, 42946, 2, 1>>,
     <<42948, 42948, 1, -48>>, <<42949, 42949, 1, -42307>>, <<42950, 42950, 1, -35384>>, <<42951, 42953, 2, 1>>,
     <<42955, 42955, 1, -42343>>, <<42956, 42970, 2, 1>>, <<42972, 42972, 1, -42561>>, <<42997, 42997, 1, 1>>,
     <<65313, 65338, 1, 32>>, <<66560, 66599, 1, 40>>, <<66736, 66771, 1, 40>>, <<66928, 66938, 1, 39>>,
     <<66940, 66954, 1, 39>>, <<66956, 66962, 1, 39>>, <<66964, 66965, 1, 39>>, <<68736, 68786, 1, 64>>,
     <<68944, 68965, 1, 32>>, <<71840, 71871, 1, 32>>, <<93760, 93791, 1, 32>>, <<93856, 93880, 1, 27>>,
     <<125184, 125217, 1, 34>>}

\* 'I' with dot above, the one char whose lowercase is two chars.
CAPITAL_I_WITH_DOT == 304

\* Greek capital sigma, small sigma and small final sigma.
CAPITAL_SIGMA == 931
SMALL_SIGMA == 963
SMALL_FINAL_SIGMA == 962

\* The lowercase of c, `hit` being the entries of the table c falls in.
lower_by(c, hit) ==
    IF hit = {} THEN <<c>> ELSE <<c + (CHOOSE t \in hit : TRUE)[4]>>

\* core::unicode::conversions::to_lower: the lowercase of one char, a
\* sequence of chars.
to_lower(c) ==
    IF c < 128
    THEN IF c >= 65 /\ c <= 90 THEN <<c + 32>> ELSE <<c>>
    ELSE IF c = CAPITAL_I_WITH_DOT THEN <<105, 775>>
    ELSE lower_by(c, {t \in LOWERCASE_TABLE :
                        c >= t[1] /\ c <= t[2] /\ (c - t[1]) % t[3] = 0})

\* The ranges <<first, last>> of the chars with the property Cased
\* (Unicode 17.0): 4632 chars, those that are Case_Ignorable as well
\* (U+10FC, U+A7F2..U+A7F4, U+AB69 among them) included.
CASED_RANGES ==
    {<<65, 90>>, <<97, 122>>, <<170, 170>>, <<181, 181>>, <<186, 186>>,
     <<192, 214>>, <<216, 246>>, <<248, 442>>, <<444, 447>>, <<452, 659>>,
     <<662, 696>>, <<704, 705>>, <<736, 740>>, <<837, 837>>, <<880, 883>>,
     <<886, 887>>, <<890, 893>>, <<895, 895>>, <<902, 902>>, <<904, 906>>,
     <<908, 908>>, <<910, 929>>, <<931, 1013>>, <<1015, 1153>>, <<1162, 1327>>,
     <<1329, 1366>>, <<1376, 1416>>, <<4256, 4293>>, <<4295, 4295>>, <<4301, 4301>>,
     <<4304, 4346>>, <<4348, 4351>>, <<5024, 5109>>, <<5112, 5117>>, <<7296, 7306>>,
     <<7312, 7354>>, <<7357, 7359>>, <<7424, 7615>>, <<7680, 7957>>, <<7960, 7965>>,
     <<7968, 8005>>, <<8008, 8013>>, <<8016, 8023>>, <<8025, 8025>>, <<8027, 8027>>,
     <<8029, 8029>>, <<8031, 8061>>, <<8064, 8116>>, <<8118, 8124>>, <<8126, 8126>>,
     <<8130, 8132>>, <<8134, 8140>>, <<8144, 8147>>, <<8150, 8155>>, <<8160, 8172>>,
     <<8178, 8180>>, <<8182, 8188>>, <<8305, 8305>>, <<8319, 8319>>, <<8336, 8348>>,
     <<8450, 8450>>, <<8455, 8455>>, <<8458, 8467>>, <<8469, 8469>>, <<8473, 8477>>,
     <<8484, 8484>>, <<8486, 8486>>, <<8488, 8488>>, <<8490, 8493>>, <<8495, 8500>>,
     <<8505, 8505>>, <<8508, 8511>>, <<8517, 8521>>, <<8526, 8526>>, <<8544, 8575>>,
     <<8579, 8580>>, <<9398, 9449>>, <<11264, 11492>>, <<11499, 11502>>, <<11506, 11507>>,
     <<11520, 11557>>, <<11559, 11559>>, <<11565, 11565>>, <<42560, 42605>>, <<42624, 42653>>,
     <<42786, 42887>>, <<42891, 42894>>, <<42896, 42972>>, <<42993, 42998>>, <<43000, 43002>>,
     <<43824, 43866>>, <<43868, 43881>>, <<43888, 43967>>, <<64256, 64262>>, <<64275, 64279>>,
     <<65313, 65338>>, <<65345, 65370>>, <<66560, 66639>>, <<66736, 66771>>, <<66776, 66811>>,
     <<66928, 66938>>, <<66940, 66954>>, <<66956, 66962>>, <<66964, 66965>>, <<66967, 66977>>,
     <<66979, 66993>>, <<66995, 67001>>, <<67003, 67004>>, <<67456, 67456>>, <<67459, 67461>>,
     <<67463, 67504>>, <<67506, 67514>>, <<68736, 68786>>, <<68800, 68850>>, <<68944, 68965>>,
     <<68976, 68997>>, <<71840, 71903>>, <<93760, 93823>>, <<93856, 93880>>, <<93883, 93907>>,
     <<119808, 119892>>, <<119894, 119964>>, <<119966, 119967>>, <<119970, 119970>>, <<119973, 119974>>,
     <<119977, 119980>>, <<119982, 119993>>, <<119995, 119995>>, <<119997, 120003>>, <<120005, 120069>>,
     <<120071, 120074>>, <<120077, 120084>>, <<120086, 120092>>, <<120094, 120121>>, <<120123, 120126>>,
     <<120128, 120132>>, <<120134, 120134>>, <<120138, 120144>>, <<120146, 120485>>, <<120488, 120512>>,
     <<120514, 120538>>, <<120540, 120570>>, <<120572, 120596>>, <<120598, 120628>>, <<120630, 120654>>,
     <<120656, 120686>>, <<120688, 120712>>, <<120714, 120744>>, <<120746, 120770>>, <<120772, 120779>>,
     <<122624, 122633>>, <<122635, 122654>>, <<122661, 122666>>, <<122928, 122989>>, <<125184, 125251>>,
     <<127280, 127305>>, <<127312, 127337>>, <<127344, 127369>>}

\* The ranges <<first, last>> of the chars with the property Case_Ignorable
\* (Unicode 17.0).
CASE_IGNORABLE_RANGES ==
    {<<39, 39>>, <<46, 46>>, <<58, 58>>, <<94, 94>>, <<96, 96>>,
     <<168, 168>>, <<173, 173>>, <<175, 175>>, <<180, 180>>, <<183, 184>>,
     <<688, 879>>, <<884, 885>>, <<890, 890>>, <<900, 901>>, <<903, 903>>,
     <<1155, 1161>>, <<1369, 1369>>, <<1375, 1375>>, <<1425, 1469>>, <<1471, 1471>>,
     <<1473, 1474>>, <<1476, 1477>>, <<1479, 1479>>, <<1524, 1524>>, <<1536, 1541>>,
     <<1552, 1562>>, <<1564, 1564>>, <<1600, 1600>>, <<1611, 1631>>, <<1648, 1648>>,
     <<1750, 1757>>, <<1759, 1768>>, <<1770, 1773>>, <<1807, 1807>>, <<1809, 1809>>,
     <<1840, 1866>>, <<1958, 1968>>, <<2027, 2037>>, <<2042, 2042>>, <<2045, 2045>>,
     <<2070, 2093>>, <<2137, 2139>>, <<2184, 2184>>, <<2192, 2193>>, <<2199, 2207>>,
     <<2249, 2306>>, <<2362, 2362>>, <<2364, 2364>>, <<2369, 2376>>, <<2381, 2381>>,
     <<2385, 2391>>, <<2402, 2403>>, <<2417, 2417>>, <<2433, 2433>>, <<2492, 2492>>,
     <<2497, 2500>>, <<2509, 2509>>, <<2530, 2531>>, <<2558, 2558>>, <<2561, 2562>>,
     <<2620, 2620>>, <<2625, 2626>>, <<2631, 2632>>, <<2635, 2637>>, <<2641, 2641>>,
     <<2672, 2673>>, <<2677, 2677>>, <<2689, 2690>>, <<2748, 2748>>, <<2753, 2757>>,
     <<2759, 2760>>, <<2765, 2765>>, <<2786, 2787>>, <<2810, 2815>>, <<2817, 2817>>,
     <<2876, 2876>>, <<2879, 2879>>, <<2881, 2884>>, <<2893, 2893>>, <<2901, 2902>>,
     <<2914, 2915>>, <<2946, 2946>>, <<3008, 3008>>, <<3021, 3021>>, <<3072, 3072>>,
     <<3076, 3076>>, <<3132, 3132>>, <<3134, 3136>>, <<3142, 3144>>, <<3146, 3149>>,
     <<3157, 3158>>, <<3170, 3171>>, <<3201, 3201>>, <<3260, 3260>>, <<3263, 3263>>,
     <<3270, 3270>>, <<3276, 3277>>, <<3298, 3299>>, <<3328, 3329>>, <<3387, 3388>>,
     <<3393, 3396>>, <<3405, 3405>>, <<3426, 3427>>, <<3457, 3457>>, <<3530, 3530>>,
     <<3538, 3540>>, <<3542, 3542>>, <<3633, 3633>>, <<3636, 3642>>, <<3654, 3662>>,
     <<3761, 3761>>, <<3764, 3772>>, <<3782, 3782>>, <<3784, 3790>>, <<3864, 3865>>,
     <<3893, 3893>>, <<3895, 3895>>, <<3897, 3897>>, <<3953, 3966>>, <<3968, 3972>>,
     <<3974, 3975>>, <<3981, 3991>>, <<3993, 4028>>, <<4038, 4038>>, <<4141, 4144>>,
     <<4146, 4151>>, <<4153, 4154>>, <<4157, 4158>>, <<4184, 4185>>, <<4190, 4192>>,
     <<4209, 4212>>, <<4226, 4226>>, <<4229, 4230>>, <<4237, 4237>>, <<4253, 4253>>,
     <<4348, 4348>>, <<4957, 4959>>, <<5906, 5908>>, <<5938, 5939>>, <<5970, 5971>>,
     <<6002, 6003>>, <<6068, 6069>>, <<6071, 6077>>, <<6086, 6086>>, <<6089, 6099>>,
     <<6103, 6103>>, <<6109, 6109>>, <<6155, 6159>>, <<6211, 6211>>, <<6277, 6278>>,
     <<6313, 6313>>, <<6432, 6434>>, <<6439, 6440>>, <<6450, 6450>>, <<6457, 6459>>,
     <<6679, 6680>>, <<6683, 6683>>, <<6742, 6742>>, <<6744, 6750>>, <<6752, 6752>>,
     <<6754, 6754>>, <<6757, 6764>>, <<6771, 6780>>, <<6783, 6783>>, <<6823, 6823>>,
     <<6832, 6877>>, <<6880, 6891>>, <<6912, 6915>>, <<6964, 6964>>, <<6966, 6970>>,
     <<6972, 6972>>, <<6978, 6978>>, <<7019, 7027>>, <<7040, 7041>>, <<7074, 7077>>,
     <<7080, 7081>>, <<7083, 7085>>, <<7142, 7142>>, <<7144, 7145>>, <<7149, 7149>>,
     <<7151, 7153>>, <<7212, 7219>>, <<7222, 7223>>, <<7288, 7293>>, <<7376, 7378>>,
     <<7380, 7392>>, <<7394, 7400>>, <<7405, 7405>>, <<7412, 7412>>, <<7416, 7417>>,
     <<7468, 7530>>, <<7544, 7544>>, <<7579, 7679>>, <<8125, 8125>>, <<8127, 8129>>,
     <<8141, 8143>>, <<8157, 8159>>, <<8173, 8175>>, <<8189, 8190>>, <<8203, 8207>>,
     <<8216, 8217>>, <<8228, 8228>>, <<8231, 8231>>, <<8234, 8238>>, <<8288, 8292>>,
     <<8294, 8303>>, <<8305, 8305>>, <<8319, 8319>>, <<8336, 8348>>, <<8400, 8432>>,
     <<11388, 11389>>, <<11503, 11505>>, <<11631, 11631>>, <<11647, 11647>>, <<11744, 11775>>,
     <<11823, 11823>>, <<12293, 12293>>, <<12330, 12333>>, <<12337, 12341>>, <<12347, 12347>>,
     <<12441, 12446>>, <<12540, 12542>>, <<40981, 40981>>, <<42232, 42237>>, <<42508, 42508>>,
     <<42607, 42610>>, <<42612, 42621>>, <<42623, 42623>>, <<42652, 42655>>, <<42736, 42737>>,
     <<42752, 42785>>, <<42864, 42864>>, <<42888, 42890>>, <<42993, 42996>>, <<43000, 43001>>,
     <<43010, 43010>>, <<43014, 43014>>, <<43019, 43019>>, <<43045, 43046>>, <<43052, 43052>>,
     <<43204, 43205>>, <<43232, 43249>>, <<43263, 43263>>, <<43302, 43309>>, <<43335, 43345>>,
     <<43392, 43394>>, <<43443, 43443>>, <<43446, 43449>>, <<43452, 43453>>, <<43471, 43471>>,
     <<43493, 43494>>, <<43561, 43566>>, <<43569, 43570>>, <<43573, 43574>>, <<43587, 43587>>,
     <<43596, 43596>>, <<43632, 43632>>, <<43644, 43644>>, <<43696, 43696>>, <<43698, 43700>>,
     <<43703, 43704>>, <<43710, 43711>>, <<43713, 43713>>, <<43741, 43741>>, <<43756, 43757>>,
     <<43763, 43764>>, <<43766, 43766>>, <<43867, 43871>>, <<43881, 43883>>, <<44005, 44005>>,
     <<44008, 44008>>, <<44013, 44013>>, <<64286, 64286>>, <<64434, 64450>>, <<65024, 65039>>,
     <<65043, 65043>>, <<65056, 65071>>, <<65106, 65106>>, <<65109, 65109>>, <<65279, 65279>>,
     <<65287, 65287>>, <<65294, 65294>>, <<65306, 65306>>, <<65342, 65342>>, <<65344, 65344>>,
     <<65392, 65392>>, <<65438, 65439>>, <<65507, 65507>>, <<65529, 65531>>, <<66045, 66045>>,
     <<66272, 66272>>, <<66422, 66426>>, <<67456, 67461>>, <<67463, 67504>>, <<67506, 67514>>,
     <<68097, 68099>>, <<68101, 68102>>, <<68108, 68111>>, <<68152, 68154>>, <<68159, 68159>>,
     <<68325, 68326>>, <<68900, 68903>>, <<68942, 68942>>, <<68969, 68973>>, <<68975, 68975>>,
     <<69291, 69292>>, <<69317, 69317>>, <<69370, 69375>>, <<69446, 69456>>, <<69506, 69509>>,
     <<69633, 69633>>, <<69688, 69702>>, <<69744, 69744>>, <<69747, 69748>>, <<69759, 69761>>,
     <<69811, 69814>>, <<69817, 69818>>, <<69821, 69821>>, <<69826, 69826>>, <<69837, 69837>>,
     <<69888, 69890>>, <<69927, 69931>>, <<69933, 69940>>, <<70003, 70003>>, <<70016, 70017>>,
     <<70070, 70078>>, <<70089, 70092>>, <<70095, 70095>>, <<70191, 70193>>, <<70196, 70196>>,
     <<70198, 70199>>, <<70206, 70206>>, <<70209, 70209>>, <<70367, 70367>>, <<70371, 70378>>,
     <<70400, 70401>>, <<70459, 70460>>, <<70464, 70464>>, <<70502, 70508>>, <<70512, 70516>>,
     <<70587, 70592>>, <<70606, 70606>>, <<70608, 70608>>, <<70610, 70610>>, <<70625, 70626>>,
     <<70712, 70719>>, <<70722, 70724>>, <<70726, 70726>>, <<70750, 70750>>, <<70835, 70840>>,
     <<70842, 70842>>, <<70847, 70848>>, <<70850, 70851>>, <<71090, 71093>>, <<71100, 71101>>,
     <<71103, 71104>>, <<71132, 71133>>, <<71219, 71226>>, <<71229, 71229>>, <<71231, 71232>>,
     <<71339, 71339>>, <<71341, 71341>>, <<71344, 71349>>, <<71351, 71351>>, <<71453, 71453>>,
     <<71455, 71455>>, <<71458, 71461>>, <<71463, 71467>>, <<71727, 71735>>, <<71737, 71738>>,
     <<71995, 71996>>, <<71998, 71998>>, <<72003, 72003>>, <<72148, 72151>>, <<72154, 72155>>,
     <<72160, 72160>>, <<72193, 72202>>, <<72243, 72248>>, <<72251, 72254>>, <<72263, 72263>>,
     <<72273, 72278>>, <<72281, 72283>>, <<72330, 72342>>, <<72344, 72345>>, <<72544, 72544>>,
     <<72546, 72548>>, <<72550, 72550>>, <<72752, 72758>>, <<72760, 72765>>, <<72767, 72767>>,
     <<72850, 72871>>, <<72874, 72880>>, <<72882, 72883>>, <<72885, 72886>>, <<73009, 73014>>,
     <<73018, 73018>>, <<73020, 73021>>, <<73023, 73029>>, <<73031, 73031>>, <<73104, 73105>>,
     <<73109, 73109>>, <<73111, 73111>>, <<73177, 73177>>, <<73459, 73460>>, <<73472, 73473>>,
     <<73526, 73530>>, <<73536, 73536>>, <<73538, 73538>>, <<73562, 73562>>, <<78896, 78912>>,
     <<78919, 78933>>, <<90398, 90409>>, <<90413, 90415>>, <<92912, 92916>>, <<92976, 92982>>,
     <<92992, 92995>>, <<93504, 93506>>, <<93547, 93548>>, <<94031, 94031>>, <<94095, 94111>>,
     <<94176, 94177>>, <<94179, 94180>>, <<94194, 94195>>, <<110576, 110579>>, <<110581, 110587>>,
     <<110589, 110590>>, <<113821, 113822>>, <<113824, 113827>>, <<118528, 118573>>, <<118576, 118598>>,
     <<119143, 119145>>, <<119155, 119170>>, <<119173, 119179>>, <<119210, 119213>>, <<119362, 119364>>,
     <<121344, 121398>>, <<121403, 121452>>, <<121461, 121461>>, <<121476, 121476>>, <<121499, 121503>>,
     <<121505, 121519>>, <<122880, 122886>>, <<122888, 122904>>, <<122907, 122913>>, <<122915, 122916>>,
     <<122918, 122922>>, <<122928, 122989>>, <<123023, 123023>>, <<123184, 123197>>, <<123566, 123566>>,
     <<123628, 123631>>, <<124139, 124143>>, <<124398, 124399>>, <<124643, 124643>>, <<124646, 124646>>,
     <<124654, 124655>>, <<124661, 124661>>, <<124671, 124671>>, <<125136, 125142>>, <<125252, 125259>>,
     <<127995, 127999>>, <<917505, 917505>>, <<917536, 917631>>, <<917760, 917999>>}

\* core::unicode::Cased and core::unicode::Case_Ignorable.
Cased(c) == \E r \in CASED_RANGES : c >= r[1] /\ c <= r[2]

Case_Ignorable(c) == \E r \in CASE_IGNORABLE_RANGES : c >= r[1] /\ c <= r[2]

\* case_ignorable_then_cased on the chars cs[i], cs[i + step], .. : the
\* first of them that is not Case_Ignorable is Cased (FALSE if there is none).
RECURSIVE case_ignorable_then_cased(_, _, _)
case_ignorable_then_cased(cs, i, step) ==
    IF i < 1 \/ i > Len(cs) THEN FALSE
    ELSE IF Case_Ignorable(cs[i])
         THEN case_ignorable_then_cased(cs, i + step, step)
         ELSE Cased(cs[i])

\* map_uppercase_sigma: the lowercase of the capital sigma at cs[i], final
\* sigma at the end of a word (Final_Sigma), small sigma elsewhere.
map_uppercase_sigma(cs, i) ==
    IF /\ case_ignorable_then_cased(cs, i - 1, -1)
       /\ ~case_ignorable_then_cased(cs, i + 1, 1)
    THEN SMALL_FINAL_SIGMA
    ELSE SMALL_SIGMA

\* String::push of the one or two chars of `out`.
push_chars(out) ==
    IF Len(out) = 1 THEN encode_utf8(out[1])
    ELSE encode_utf8(out[1]) \o encode_utf8(out[2])

\* The lowercase of the chars cs[i..], as bytes.
RECURSIVE lowercase_from(_, _)
lowercase_from(cs, i) ==
    IF i > Len(cs) THEN <<>>
    ELSE push_chars(IF cs[i] = CAPITAL_SIGMA
                    THEN <<map_uppercase_sigma(cs, i)>>
                    ELSE to_lower(cs[i]))
         \o lowercase_from(cs, i + 1)

\* str::to_lowercase on the bytes of valid text.
to_lowercase(data) == lowercase_from(chars(data), 1)

\* The column of make_key: the col_idx-th of the tokens `cols` of the line,
\* or the line when there is no such token.
column_of(line, cols, col_idx) ==
    IF col_idx > 0 /\ col_idx <= Len(cols) THEN cols[col_idx] ELSE line

\* The case folding of make_key: text is lowercased, other bytes are kept.
fold_case(data, options) ==
    IF options.ignore_case
    THEN IF from_utf8_ok(data) THEN to_lowercase(data) ELSE data
    ELSE data

\* make_key: the comparison key of a (stripped) line.  options.column is
\* <<>> for None and <<i>> for Some(i).
make_key(line, options) ==
    fold_case(IF options.column # <<>>
              THEN column_of(line, split_whitespace(from_utf8_lossy(line)),
                             options.column[1])
              ELSE line,
              options)

\* The decimal digits of n, as bytes.
RECURSIVE to_string(_)
to_string(n) ==
    IF n < 10 THEN <<48 + n>>
    ELSE to_string(n \div 10) \o <<48 + (n % 10)>>

\* format!("{:>7} ", n): n right-aligned in a field of at least 7 bytes,
\* then one space.
count_prefix(n) ==
    LET digits == to_string(n)
        pad    == IF Len(digits) < 7 THEN 7 - Len(digits) ELSE 0
    IN  [i \in 1..pad |-> 32] \o digits \o <<32>>

\* The `width` low bytes of n, least significant first.
RECURSIVE le_bytes(_, _)
le_bytes(n, width) ==
    IF width = 0 THEN <<>>
    ELSE <<n % 256>> \o le_bytes(n \div 256, width - 1)

\* u64::to_le_bytes and u64::from_le_bytes.
to_le_bytes(n) == le_bytes(n, 8)

RECURSIVE from_le_bytes(_)
from_le_bytes(bytes) ==
    IF bytes = <<>> THEN 0
    ELSE Head(bytes) + 256 * from_le_bytes(Tail(bytes))

\* A map (HashMap, or the sled tree) is a function from its keys.
insert(map, key, value) ==
    [k \in (DOMAIN map) \cup {key} |-> IF k = key THEN value ELSE map[k]]

\* ------------------------------------------------------------- run state

\* The locals of one call, as a record: `pc` is the loop the call is in,
\* `pos` the source's read cursor (bytes consumed), `index` the line index
\* of the disk-backed passes and of the in-memory second pass, `result` the
\* value returned ("Ok" with `stats`, or the error's kind).
new_run(start) ==
    [pc              |-> "start",
     pos             |-> start,
     output          |-> <<>>,
     stats           |-> [lines_read |-> 0, lines_written |-> 0,
                          lines_removed |-> 0, unique_lines |-> 0],
     seen            |-> <<>>,
     lines_for_count |-> <<>>,
     last_occurrence |-> <<>>,
     counts          |-> <<>>,
     lines           |-> <<>>,
     db              |-> <<>>,
     index           |-> 0,
     result          |-> "none"]

\* `return Ok(stats)` / `return Err(..)`.
return(s, value) == [s EXCEPT !.pc = "done", !.result = value]

\* --------------------------------------------------------- the dispatchers

\* deduplicate without the use_disk branch: the in-memory algorithms for
\* every configuration.
deduplicate_in_memory_only(s, options) ==
    CASE options.mode = "KeepFirst" -> [s EXCEPT !.pc = "keep_first"]
      [] options.mode = "KeepLast"  -> [s EXCEPT !.pc = "keep_last_pass1"]
      [] options.mode = "RemoveAll" -> [s EXCEPT !.pc = "remove_all_pass1"]

\* deduplicate: the disk-backed keep-first, the InvalidArgument refusal of
\* the disk-backed two-pass modes, or the in-memory algorithm of the mode.
deduplicate(s, options) ==
    IF options.use_disk
    THEN IF options.mode = "KeepFirst"
         THEN [s EXCEPT !.pc = "keep_first_disk"]
         ELSE return(s, "InvalidArgument")
    ELSE CASE options.mode = "KeepFirst" -> [s EXCEPT !.pc = "keep_first"]
           [] options.mode = "KeepLast"  -> [s EXCEPT !.pc = "keep_last_pass1"]
           [] options.mode = "RemoveAll" -> [s EXCEPT !.pc = "remove_all_pass1"]

\* deduplicate_seekable handing every configuration to `deduplicate`.
deduplicate_seekable_delegating(s, options) ==
    IF options.use_disk
    THEN IF options.mode = "KeepFirst"
         THEN [s EXCEPT !.pc = "keep_first_disk"]
         ELSE return(s, "InvalidArgument")
    ELSE CASE options.mode = "KeepFirst" -> [s EXCEPT !.pc = "keep_first"]
           [] options.mode = "KeepLast"  -> [s EXCEPT !.pc = "keep_last_pass1"]
           [] options.mode = "RemoveAll" -> [s EXCEPT !.pc = "remove_all_pass1"]

\* deduplicate_seekable: the disk-backed two-pass algorithms, and
\* `deduplicate` for everything else.
deduplicate_seekable(s, options) ==
    IF options.use_disk
    THEN CASE options.mode = "KeepLast"  -> [s EXCEPT !.pc = "keep_last_disk_pass1"]
           [] options.mode = "RemoveAll" -> [s EXCEPT !.pc = "remove_all_disk_pass1"]
           [] OTHER                      -> deduplicate(s, options)
    ELSE deduplicate(s, options)

\* ---------------------------------------------------- in-memory keep-first

\* keep_first_decide with the seen-test toggling: every odd occurrence of a
\* key is kept.
keep_first_decide_toggling(s, line, count, options) ==
    IF count % 2 = 1
    THEN [s EXCEPT
            !.lines_for_count = IF options.count THEN Append(@, line) ELSE @,
            !.output = IF options.count THEN @ ELSE @ \o line,
            !.stats.lines_written = @ + 1]
    ELSE [s EXCEPT
            !.stats.lines_removed = @ + 1,
            !.output = IF options.show_removed THEN @ \o REMOVED \o line ELSE @]

\* keep_first_decide writing the stripped line and one "\n" for a kept line.
keep_first_decide_normalising(s, line, count, options) ==
    IF count = 1
    THEN [s EXCEPT
            !.lines_for_count = IF options.count THEN Append(@, line) ELSE @,
            !.output = IF options.count THEN @ ELSE @ \o key_line(line) \o <<LF>>,
            !.stats.lines_written = @ + 1]
    ELSE [s EXCEPT
            !.stats.lines_removed = @ + 1,
            !.output = IF options.show_removed THEN @ \o REMOVED \o line ELSE @]

\* keep_first_decide writing the "[REMOVED] " record whether show_removed
\* is set or not.
keep_first_decide_always_shown(s, line, count, options) ==
    IF count = 1
    THEN [s EXCEPT
            !.lines_for_count = IF options.count THEN Append(@, line) ELSE @,
            !.output = IF options.count THEN @ ELSE @ \o line,
            !.stats.lines_written = @ + 1]
    ELSE [s EXCEPT
            !.stats.lines_removed = @ + 1,
            !.output = @ \o REMOVED \o line]

\* The keep/remove decision of one line, `count` being the occurrences of
\* its key so far.
keep_first_decide(s, line, count, options) ==
    IF count = 1
    THEN [s EXCEPT
            !.lines_for_count = IF options.count THEN Append(@, line) ELSE @,
            !.output = IF options.count THEN @ ELSE @ \o line,
            !.stats.lines_written = @ + 1]
    ELSE [s EXCEPT
            !.stats.lines_removed = @ + 1,
            !.output = IF options.show_removed THEN @ \o REMOVED \o line ELSE @]

\* keep_first_line keying the line as read, terminator included.
keep_first_line_unstripped(s, inp, options) ==
    LET line  == read_until(inp, s.pos)
        key   == make_key(line, options)
        count == IF key \in DOMAIN s.seen THEN s.seen[key] + 1 ELSE 1
    IN  keep_first_decide(
            [s EXCEPT !.pos = @ + Len(line),
                      !.stats.lines_read = @ + 1,
                      !.seen = insert(@, key, count)],
            line, count, options)

\* One iteration of the read loop.
keep_first_line(s, inp, options) ==
    LET line  == read_until(inp, s.pos)
        key   == make_key(key_line(line), options)
        count == IF key \in DOMAIN s.seen THEN s.seen[key] + 1 ELSE 1
    IN  keep_first_decide(
            [s EXCEPT !.pos = @ + Len(line),
                      !.stats.lines_read = @ + 1,
                      !.seen = insert(@, key, count)],
            line, count, options)

\* The deferred, count-prefixed lines.
RECURSIVE keep_first_counts(_, _, _)
keep_first_counts(lines_for_count, seen, options) ==
    IF lines_for_count = <<>> THEN <<>>
    ELSE LET line == Head(lines_for_count)
             key  == make_key(key_line(line), options)
         IN  (IF key \in DOMAIN seen
              THEN count_prefix(seen[key]) \o line
              ELSE <<>>)
             \o keep_first_counts(Tail(lines_for_count), seen, options)

\* keep_first_end counting the read that met the end of input as a line.
keep_first_end_counting_eof(s, options) ==
    return([s EXCEPT
              !.stats.lines_read = @ + 1,
              !.stats.unique_lines = Cardinality(DOMAIN s.seen),
              !.output = IF options.count
                         THEN @ \o keep_first_counts(s.lines_for_count, s.seen, options)
                         ELSE @],
           "Ok")

\* End of input: unique_lines, the deferred lines, Ok(stats).
keep_first_end(s, options) ==
    return([s EXCEPT
              !.stats.unique_lines = Cardinality(DOMAIN s.seen),
              !.output = IF options.count
                         THEN @ \o keep_first_counts(s.lines_for_count, s.seen, options)
                         ELSE @],
           "Ok")

\* ----------------------------------------------------- in-memory keep-last

\* First pass, one line: the key's last occurrence is this line.
keep_last_pass1(s, inp, options) ==
    LET line == read_until(inp, s.pos)
        key  == make_key(key_line(line), options)
    IN  [s EXCEPT !.pos = @ + Len(line),
                  !.stats.lines_read = @ + 1,
                  !.last_occurrence = insert(@, key, <<s.stats.lines_read, line>>),
                  !.lines = Append(@, line)]

\* End of input: unique_lines; the second pass starts at index 0.
keep_last_pass1_end(s) ==
    [s EXCEPT !.stats.unique_lines = Cardinality(DOMAIN s.last_occurrence),
              !.index = 0,
              !.pc = "keep_last_pass2"]

\* The indices of the last occurrences.
kept_indices(last_occurrence) ==
    {last_occurrence[k][1] : k \in DOMAIN last_occurrence}

\* Second pass, the line of index s.index (0-based).
keep_last_pass2(s, options) ==
    LET idx   == s.index
        line  == s.lines[idx + 1]
        key   == make_key(key_line(line), options)
        count == Cardinality({i \in 1..Len(s.lines) :
                                make_key(key_line(s.lines[i]), options) = key})
        r     == [s EXCEPT !.index = @ + 1]
    IN  IF idx \in kept_indices(s.last_occurrence)
        THEN [r EXCEPT
                !.output = @ \o (IF options.count THEN count_prefix(count) ELSE <<>>)
                             \o line,
                !.stats.lines_written = @ + 1]
        ELSE [r EXCEPT
                !.stats.lines_removed = @ + 1,
                !.output = IF options.show_removed THEN @ \o REMOVED \o line ELSE @]

\* ---------------------------------------------------- in-memory remove-all

\* First pass, one line: one more occurrence of its key.
remove_all_pass1(s, inp, options) ==
    LET line == read_until(inp, s.pos)
        key  == make_key(key_line(line), options)
    IN  [s EXCEPT !.pos = @ + Len(line),
                  !.stats.lines_read = @ + 1,
                  !.counts = insert(@, key, IF key \in DOMAIN @ THEN @[key] + 1 ELSE 1),
                  !.lines = Append(@, line)]

\* End of input: unique_lines is the number of keys counted once.
remove_all_pass1_end(s) ==
    [s EXCEPT !.stats.unique_lines =
                  Cardinality({k \in DOMAIN s.counts : s.counts[k] = 1}),
              !.index = 0,
              !.pc = "remove_all_pass2"]

\* Second pass, the line of index s.index (0-based).
remove_all_pass2(s, options) ==
    LET line  == s.lines[s.index + 1]
        key   == make_key(key_line(line), options)
        count == IF key \in DOMAIN s.counts THEN s.counts[key] ELSE 0
        r     == [s EXCEPT !.index = @ + 1]
    IN  IF count = 1
        THEN [r EXCEPT
                !.output = @ \o (IF options.count THEN count_prefix(count) ELSE <<>>)
                             \o line,
                !.stats.lines_written = @ + 1]
        ELSE [r EXCEPT
                !.stats.lines_removed = @ + 1,
                !.output = IF options.show_removed THEN @ \o REMOVED \o line ELSE @]

\* --------------------------------------------------- disk-backed keep-first

\* keep_first_disk_decide deferring every kept line to the end of input,
\* whether count is set or not.
keep_first_disk_decide_deferring(s, line, count, options) ==
    IF count = 1
    THEN [s EXCEPT
            !.lines_for_count = Append(@, line),
            !.stats.lines_written = @ + 1]
    ELSE [s EXCEPT
            !.stats.lines_removed = @ + 1,
            !.output = IF options.show_removed THEN @ \o REMOVED \o line ELSE @]

\* The keep/remove decision of one line, `count` being the stored count.
keep_first_disk_decide(s, line, count, options) ==
    IF count = 1
    THEN [s EXCEPT
            !.lines_for_count = IF options.count THEN Append(@, line) ELSE @,
            !.output = IF options.count THEN @ ELSE @ \o line,
            !.stats.lines_written = @ + 1]
    ELSE [s EXCEPT
            !.stats.lines_removed = @ + 1,
            !.output = IF options.show_removed THEN @ \o REMOVED \o line ELSE @]

\* One iteration of the read loop: the key's count is read from the store,
\* incremented and written back as 8 little-endian bytes.
keep_first_disk_line(s, inp, options) ==
    LET line  == read_until(inp, s.pos)
        key   == make_key(key_line(line), options)
        count == IF key \in DOMAIN s.db THEN from_le_bytes(s.db[key]) + 1 ELSE 1
    IN  keep_first_disk_decide(
            [s EXCEPT !.pos = @ + Len(line),
                      !.stats.lines_read = @ + 1,
                      !.db = insert(@, key, to_le_bytes(count))],
            line, count, options)

\* The deferred, count-prefixed lines.  The key looked up is made from the
\* whole line, terminator included.
RECURSIVE keep_first_disk_counts(_, _, _)
keep_first_disk_counts(lines_for_count, db, options) ==
    IF lines_for_count = <<>> THEN <<>>
    ELSE LET line == Head(lines_for_count)
             key  == make_key(line, options)
         IN  (IF key \in DOMAIN db
              THEN count_prefix(from_le_bytes(db[key])) \o line
              ELSE <<>>)
             \o keep_first_disk_counts(Tail(lines_for_count), db, options)

\* End of input: unique_lines = db.len(), the deferred lines, Ok(stats).
keep_first_disk_end(s, options) ==
    return([s EXCEPT
              !.stats.unique_lines = Cardinality(DOMAIN s.db),
              !.output = IF options.count
                         THEN @ \o keep_first_disk_counts(s.lines_for_count, s.db, options)
                         ELSE @],
           "Ok")

\* ---------------------------------------------------- disk-backed keep-last

\* keep_last_disk_pass1 storing the count 1 on every visit of a key.
keep_last_disk_pass1_count_reset(s, inp, options) ==
    LET line_index == s.index
        line  == read_until(inp, s.pos)
        key   == make_key(key_line(line), options)
        value == to_le_bytes(line_index) \o to_le_bytes(1)
    IN  [s EXCEPT !.pos = @ + Len(line),
                  !.stats.lines_read = @ + 1,
                  !.db = insert(@, key, value),
                  !.index = @ + 1]

\* First pass, the line of index s.index: the store holds, per key, 16
\* bytes, the last line index and the count.
keep_last_disk_pass1(s, inp, options) ==
    LET line_index == s.index
        line  == read_until(inp, s.pos)
        key   == make_key(key_line(line), options)
        count == IF key \in DOMAIN s.db
                 THEN IF Len(s.db[key]) = 16
                      THEN from_le_bytes(SubSeq(s.db[key], 9, 16)) + 1
                      ELSE 1
                 ELSE 1
        value == to_le_bytes(line_index) \o to_le_bytes(count)
    IN  [s EXCEPT !.pos = @ + Len(line),
                  !.stats.lines_read = @ + 1,
                  !.db = insert(@, key, value),
                  !.index = @ + 1]

\* End of input: unique_lines = db.len(); input.seek(SeekFrom::Start(0)).
keep_last_disk_pass1_end(s) ==
    [s EXCEPT !.stats.unique_lines = Cardinality(DOMAIN s.db),
              !.pos = 0,
              !.index = 0,
              !.pc = "keep_last_disk_pass2"]

\* Second pass, the line of index s.index: kept iff the store's last index
\* for its key is this index; a line whose key the store lacks is skipped.
keep_last_disk_pass2(s, inp, options) ==
    LET current_index == s.index
        line == read_until(inp, s.pos)
        key  == make_key(key_line(line), options)
        r    == [s EXCEPT !.pos = @ + Len(line), !.index = @ + 1]
    IN  IF key \in DOMAIN s.db /\ Len(s.db[key]) = 16
        THEN LET last_index == from_le_bytes(SubSeq(s.db[key], 1, 8))
                 count      == from_le_bytes(SubSeq(s.db[key], 9, 16))
             IN  IF current_index = last_index
                 THEN [r EXCEPT
                         !.output = @ \o (IF options.count THEN count_prefix(count)
                                          ELSE <<>>) \o line,
                         !.stats.lines_written = @ + 1]
                 ELSE [r EXCEPT
                         !.stats.lines_removed = @ + 1,
                         !.output = IF options.show_removed
                                    THEN @ \o REMOVED \o line ELSE @]
        ELSE r

\* --------------------------------------------------- disk-backed remove-all

\* First pass, one line: the key's count, 8 little-endian bytes.
remove_all_disk_pass1(s, inp, options) ==
    LET line  == read_until(inp, s.pos)
        key   == make_key(key_line(line), options)
        count == IF key \in DOMAIN s.db THEN from_le_bytes(s.db[key]) + 1 ELSE 1
    IN  [s EXCEPT !.pos = @ + Len(line),
                  !.stats.lines_read = @ + 1,
                  !.db = insert(@, key, to_le_bytes(count))]

\* End of input: unique_lines counts the keys stored with count 1;
\* input.seek(SeekFrom::Start(0)).
remove_all_disk_pass1_end(s) ==
    [s EXCEPT !.stats.unique_lines =
                  Cardinality({k \in DOMAIN s.db : from_le_bytes(s.db[k]) = 1}),
              !.pos = 0,
              !.pc = "remove_all_disk_pass2"]

\* Second pass, one line: kept iff its key's count is 1; a line whose key
\* the store lacks is skipped.
remove_all_disk_pass2(s, inp, options) ==
    LET line == read_until(inp, s.pos)
        key  == make_key(key_line(line), options)
        r    == [s EXCEPT !.pos = @ + Len(line)]
    IN  IF key \in DOMAIN s.db
        THEN LET count == from_le_bytes(s.db[key])
             IN  IF count = 1
                 THEN [r EXCEPT
                         !.output = @ \o (IF options.count THEN count_prefix(count)
                                          ELSE <<>>) \o line,
                         !.stats.lines_written = @ + 1]
                 ELSE [r EXCEPT
                         !.stats.lines_removed = @ + 1,
                         !.output = IF options.show_removed
                                    THEN @ \o REMOVED \o line ELSE @]
        ELSE r

\* ------------------------------------------------------------ a whole call

\* The step the call takes from run state s: the dispatcher at "start", a
\* loop iteration while the loop's source has a line left, the loop's exit
\* otherwise.
step(s, entry, inp, options) ==
    LET eof == read_until(inp, s.pos) = <<>>
        end == s.index >= Len(s.lines)
    IN  CASE s.pc = "start" ->
                IF entry = "deduplicate" THEN deduplicate(s, options)
                ELSE deduplicate_seekable(s, options)
          [] s.pc = "keep_first" ->
                IF eof THEN keep_first_end(s, options)
                ELSE keep_first_line(s, inp, options)
          [] s.pc = "keep_last_pass1" ->
                IF eof THEN keep_last_pass1_end(s)
                ELSE keep_last_pass1(s, inp, options)
          [] s.pc = "keep_last_pass2" ->
                IF end THEN return(s, "Ok") ELSE keep_last_pass2(s, options)
          [] s.pc = "remove_all_pass1" ->
                IF eof THEN remove_all_pass1_end(s)
                ELSE remove_all_pass1(s, inp, options)
          [] s.pc = "remove_all_pass2" ->
                IF end THEN return(s, "Ok") ELSE remove_all_pass2(s, options)
          [] s.pc = "keep_first_disk" ->
                IF eof THEN keep_first_disk_end(s, options)
                ELSE keep_first_disk_line(s, inp, options)
          [] s.pc = "keep_last_disk_pass1" ->
                IF eof THEN keep_last_disk_pass1_end(s)
                ELSE keep_last_disk_pass1(s, inp, options)
          [] s.pc = "keep_last_disk_pass2" ->
                IF eof THEN return(s, "Ok")
                ELSE keep_last_disk_pass2(s, inp, options)
          [] s.pc = "remove_all_disk_pass1" ->
                IF eof THEN remove_all_disk_pass1_end(s)
                ELSE remove_all_disk_pass1(s, inp, options)
          [] s.pc = "remove_all_disk_pass2" ->
                IF eof THEN return(s, "Ok")
                ELSE remove_all_disk_pass2(s, inp, options)

RECURSIVE run_from(_, _, _, _)
run_from(s, entry, inp, options) ==
    IF s.pc = "done" THEN s
    ELSE run_from(step(s, entry, inp, options), entry, inp, options)

\* The call `entry(source, &mut output, &options)` run to its return, the
\* source holding the bytes `inp` with its cursor after `start` of them.
call(entry, inp, start, options) ==
    run_from(new_run(start), entry, inp, options)

\* -------------------------------------------------------- the state machine

VARIABLES
    entry,            \* the function called
    input,            \* the bytes of the source
    start,            \* the source's cursor position when the call is made
    options,          \* the DeduplicationOptions
    pc, pos, output, stats, seen, lines_for_count, last_occurrence, counts,
    lines, db, index, result      \* the run state, as in new_run

call_vars == <<entry, input, start, options>>

vars == <<entry, input, start, options, pc, pos, output, stats, seen,
          lines_for_count, last_occurrence, counts, lines, db, index, result>>

State ==
    [pc |-> pc, pos |-> pos, output |-> output, stats |-> stats, seen |-> seen,
     lines_for_count |-> lines_for_count, last_occurrence |-> last_occurrence,
     counts |-> counts, lines |-> lines, db |-> db, index |-> index,
     result |-> result]

Becomes(s) ==
    /\ pc' = s.pc
    /\ pos' = s.pos
    /\ output' = s.output
    /\ stats' = s.stats
    /\ seen' = s.seen
    /\ lines_for_count' = s.lines_for_count
    /\ last_occurrence' = s.last_occurrence
    /\ counts' = s.counts
    /\ lines' = s.lines
    /\ db' = s.db
    /\ index' = s.index
    /\ result' = s.result
    /\ UNCHANGED call_vars

\* read_until returned 0: the source has no byte left.
Eof == read_until(input, pos) = <<>>

Modes == {"KeepFirst", "KeepLast", "RemoveAll"}

Entries == {"deduplicate", "deduplicate_seekable"}

\* column: None, Some(1).
Columns == {<<>>, <<1>>}

Options ==
    [mode : Modes, ignore_case : BOOLEAN, count : BOOLEAN,
     show_removed : BOOLEAN, column : Columns, use_disk : BOOLEAN]

\* The contents of the lines of an input: "a" and "A b".
Contents == {<<97>>, <<65, 32, 98>>}

Terminators == {<<LF>>, <<CR, LF>>}

\* The inputs of exactly n terminated lines.
RECURSIVE Texts(_)
Texts(n) ==
    IF n = 0 THEN {<<>>}
    ELSE {t \o c \o e : t \in Texts(n - 1), c \in Contents, e \in Terminators}

\* Up to MaxLines lines, the last one with or without a terminator.
Inputs ==
    UNION {Texts(n) : n \in 0..MaxLines}
    \cup {t \o c : t \in UNION {Texts(n) : n \in 0..(MaxLines - 1)}, c \in Contents}

Min(a, b) == IF a < b THEN a ELSE b

\* A call about to be made.  A source that cannot seek is its remaining
\* bytes; a seekable one may have been read from before it is handed over.
Init ==
    /\ entry \in Entries
    /\ options \in Options
    /\ input \in Inputs
    /\ start \in (IF entry = "deduplicate_seekable"
                  THEN 0..Min(MaxStart, Len(input)) ELSE {0})
    /\ pc = "start"
    /\ pos = start
    /\ output = <<>>
    /\ stats = [lines_read |-> 0, lines_written |-> 0,
                lines_removed |-> 0, unique_lines |-> 0]
    /\ seen = <<>>
    /\ lines_for_count = <<>>
    /\ last_occurrence = <<>>
    /\ counts = <<>>
    /\ lines = <<>>
    /\ db = <<>>
    /\ index = 0
    /\ result = "none"

Deduplicate ==
    /\ pc = "start" /\ entry = "deduplicate"
    /\ Becomes(deduplicate(State, options))

DeduplicateSeekable ==
    /\ pc = "start" /\ entry = "deduplicate_seekable"
    /\ Becomes(deduplicate_seekable(State, options))

KeepFirstLine ==
    /\ pc = "keep_first" /\ ~Eof
    /\ Becomes(keep_first_line(State, input, options))

KeepFirstEnd ==
    /\ pc = "keep_first" /\ Eof
    /\ Becomes(keep_first_end(State, options))

KeepLastPass1 ==
    /\ pc = "keep_last_pass1" /\ ~Eof
    /\ Becomes(keep_last_pass1(State, input, options))

KeepLastPass1End ==
    /\ pc = "keep_last_pass1" /\ Eof
    /\ Becomes(keep_last_pass1_end(State))

KeepLastPass2 ==
    /\ pc = "keep_last_pass2" /\ index < Len(lines)
    /\ Becomes(keep_last_pass2(State, options))

KeepLastReturn ==
    /\ pc = "keep_last_pass2" /\ index >= Len(lines)
    /\ Becomes(return(State, "Ok"))

RemoveAllPass1 ==
    /\ pc = "remove_all_pass1" /\ ~Eof
    /\ Becomes(remove_all_pass1(State, input, options))

RemoveAllPass1End ==
    /\ pc = "remove_all_pass1" /\ Eof
    /\ Becomes(remove_all_pass1_end(State))

RemoveAllPass2 ==
    /\ pc = "remove_all_pass2" /\ index < Len(lines)
    /\ Becomes(remove_all_pass2(State, options))

RemoveAllReturn ==
    /\ pc = "remove_all_pass2" /\ index >= Len(lines)
    /\ Becomes(return(State, "Ok"))

KeepFirstDiskLine ==
    /\ pc = "keep_first_disk" /\ ~Eof
    /\ Becomes(keep_first_disk_line(State, input, options))

KeepFirstDiskEnd ==
    /\ pc = "keep_first_disk" /\ Eof
    /\ Becomes(keep_first_disk_end(State, options))

KeepLastDiskPass1 ==
    /\ pc = "keep_last_disk_pass1" /\ ~Eof
    /\ Becomes(keep_last_disk_pass1(State, input, options))

KeepLastDiskPass1End ==
    /\ pc = "keep_last_disk_pass1" /\ Eof
    /\ Becomes(keep_last_disk_pass1_end(State))

KeepLastDiskPass2 ==
    /\ pc = "keep_last_disk_pass2" /\ ~Eof
    /\ Becomes(keep_last_disk_pass2(State, input, options))

KeepLastDiskReturn ==
    /\ pc = "keep_last_disk_pass2" /\ Eof
    /\ Becomes(return(State, "Ok"))

RemoveAllDiskPass1 ==
    /\ pc = "remove_all_disk_pass1" /\ ~Eof
    /\ Becomes(remove_all_disk_pass1(State, input, options))

RemoveAllDiskPass1End ==
    /\ pc = "remove_all_disk_pass1" /\ Eof
    /\ Becomes(remove_all_disk_pass1_end(State))

RemoveAllDiskPass2 ==
    /\ pc = "remove_all_disk_pass2" /\ ~Eof
    /\ Becomes(remove_all_disk_pass2(State, input, options))

RemoveAllDiskReturn ==
    /\ pc = "remove_all_disk_pass2" /\ Eof
    /\ Becomes(return(State, "Ok"))

\* The steps of the in-memory engine and of the two dispatchers.
NextInMemory ==
    \/ Deduplicate
    \/ DeduplicateSeekable
    \/ KeepFirstLine
    \/ KeepFirstEnd
    \/ KeepLastPass1
    \/ KeepLastPass1End
    \/ KeepLastPass2
    \/ KeepLastReturn
    \/ RemoveAllPass1
    \/ RemoveAllPass1End
    \/ RemoveAllPass2
    \/ RemoveAllReturn

\* The steps of the disk-backed engine.
NextDisk ==
    \/ KeepFirstDiskLine
    \/ KeepFirstDiskEnd
    \/ KeepLastDiskPass1
    \/ KeepLastDiskPass1End
    \/ KeepLastDiskPass2
    \/ KeepLastDiskReturn
    \/ RemoveAllDiskPass1
    \/ RemoveAllDiskPass1End
    \/ RemoveAllDiskPass2
    \/ RemoveAllDiskReturn

Next == NextInMemory \/ NextDisk

\* Every call: both functions, both engines.
Spec == Init /\ [][Next]_vars

\* The calls of the in-memory engine (use_disk unset).
InitInMemory == Init /\ ~options.use_disk

InMemorySpec == InitInMemory /\ [][NextInMemory]_vars

\* ------------------------------------------------- what the claims speak of

\* The call has returned Ok(stats).
Returned == pc = "done" /\ result = "Ok"

\* The lines of the bytes of `inp` after position p.
RECURSIVE split_lines(_, _)
split_lines(inp, p) ==
    LET line == read_until(inp, p)
    IN  IF line = <<>> THEN <<>>
        ELSE <<line>> \o split_lines(inp, p + Len(line))

\* The input of the call: the lines from the cursor's position on.
InputLines == split_lines(input, start)

\* The derived key of a line under the call's options.
Key(line) == make_key(key_line(line), options)

FirstOccurrences(L) ==
    {i \in 1..Len(L) : \A j \in 1..(i - 1) : Key(L[j]) # Key(L[i])}

LastOccurrences(L) ==
    {i \in 1..Len(L) : \A j \in (i + 1)..Len(L) : Key(L[j]) # Key(L[i])}

SingleOccurrences(L) ==
    {i \in 1..Len(L) : \A j \in 1..Len(L) : j # i => Key(L[j]) # Key(L[i])}

DistinctKeys(L) == {Key(L[i]) : i \in 1..Len(L)}

\* The output in which the lines of L whose index is in `kept` stand as they
\* were read and, if `shown`, every other line stands behind "[REMOVED] ";
\* from index i on.
RECURSIVE Records(_, _, _, _)
Records(L, kept, shown, i) ==
    IF i > Len(L) THEN <<>>
    ELSE (IF i \in kept THEN L[i]
          ELSE IF shown THEN REMOVED \o L[i] ELSE <<>>)
         \o Records(L, kept, shown, i + 1)

\* The lines of `out` carry each key of K once, and no other key.
OneLinePerKey(out, K) ==
    LET O == split_lines(out, 0)
    IN  /\ Len(O) = Cardinality(K)
        /\ {Key(O[i]) : i \in 1..Len(O)} = K

\* ------------------------------------------------------------------ claims

\* C1 (as claimed): a run that returns Ok has
\* lines_written + lines_removed = lines_read, in every mode, with every
\* flag, through either function and in either engine.
C1_StatsBalance ==
    Returned => stats.lines_written + stats.lines_removed = stats.lines_read

\* C2 (as claimed): deduplicate_seekable with use_disk set writes the same
\* bytes and returns the same statistics as the same call with use_disk
\* unset.
C2_DiskSameAsMemory ==
    (pc = "done" /\ entry = "deduplicate_seekable" /\ options.use_disk) =>
        LET m == call(entry, input, start, [options EXCEPT !.use_disk = FALSE])
        IN  /\ result = m.result
            /\ output = m.output
            /\ stats = m.stats

\* C3: KeepFirst with count and show_removed off writes exactly the input
\* lines that are the first occurrence of their key, in input order; the
\* output has one line per distinct key and unique_lines is the number of
\* distinct keys.
C3_KeepFirstExact ==
    (Returned /\ options.mode = "KeepFirst"
        /\ ~options.count /\ ~options.show_removed) =>
        LET L == InputLines
        IN  /\ output = Records(L, FirstOccurrences(L), FALSE, 1)
            /\ OneLinePerKey(output, DistinctKeys(L))
            /\ stats.unique_lines = Cardinality(DistinctKeys(L))

\* C3's case: a KeepFirst run that kept two lines and removed a duplicate.
C3_Witness ==
    /\ Returned /\ options.mode = "KeepFirst"
    /\ ~options.count /\ ~options.show_removed
    /\ stats.lines_written >= 2 /\ stats.lines_removed >= 1

\* C4 (as claimed): KeepLast, in either engine, counts a line as written iff
\* no later input line has its key, and as removed otherwise; with count off
\* the written lines stand in the output in input order (removed ones behind
\* "[REMOVED] " if shown), and with show_removed off too the output has one
\* line per distinct key.
C4_KeepLastExact ==
    (Returned /\ options.mode = "KeepLast") =>
        LET L == InputLines
            last == LastOccurrences(L)
        IN  /\ stats.lines_written = Cardinality(last)
            /\ stats.lines_removed = Len(L) - Cardinality(last)
            /\ ~options.count =>
                   output = Records(L, last, options.show_removed, 1)
            /\ (~options.count /\ ~options.show_removed) =>
                   OneLinePerKey(output, DistinctKeys(L))

\* C4's case: a KeepLast run over a, b, a (by key): the first line is
\* removed, the other two are written.
C4_Witness ==
    /\ Returned /\ options.mode = "KeepLast"
    /\ ~options.count /\ ~options.show_removed
    /\ Len(InputLines) = 3
    /\ Key(InputLines[1]) = Key(InputLines[3])
    /\ Key(InputLines[1]) # Key(InputLines[2])
    /\ output = InputLines[2] \o InputLines[3]

\* C5 (as claimed): RemoveAll, in either engine, counts a line as written
\* iff its key occurs once in the whole input, and as removed otherwise; with
\* count off the written lines stand in the output in input order;
\* unique_lines is the number of keys that occur exactly once.
C5_RemoveAllExact ==
    (Returned /\ options.mode = "RemoveAll") =>
        LET L == InputLines
            single == SingleOccurrences(L)
        IN  /\ stats.lines_written = Cardinality(single)
            /\ stats.lines_removed = Len(L) - Cardinality(single)
            /\ ~options.count =>
                   output = Records(L, single, options.show_removed, 1)
            /\ stats.unique_lines = Cardinality({Key(L[i]) : i \in single})

\* C5's case: a RemoveAll run over a, b, a (by key): only the middle line
\* is written, both occurrences of the other key are removed.
C5_Witness ==
    /\ Returned /\ options.mode = "RemoveAll"
    /\ ~options.count /\ ~options.show_removed
    /\ Len(InputLines) = 3
    /\ Key(InputLines[1]) = Key(InputLines[3])
    /\ Key(InputLines[1]) # Key(InputLines[2])
    /\ output = InputLines[2]
    /\ stats.lines_removed = 2

\* C6: `deduplicate` with use_disk set and mode KeepLast or RemoveAll
\* returns InvalidArgument at once: no step but the return is taken, the
\* source's cursor has not moved and the output is empty.  With mode
\* KeepFirst it does not return InvalidArgument.
C6_DiskTwoPassRefused ==
    (entry = "deduplicate" /\ options.use_disk) =>
        IF options.mode \in {"KeepLast", "RemoveAll"}
        THEN /\ pc \in {"start", "done"}
             /\ pc = "done" => result = "InvalidArgument"
             /\ pos = start
             /\ output = <<>>
        ELSE /\ result # "InvalidArgument"
             /\ pc = "done" => result = "Ok"

\* C6's case: the refusal, on a source that has lines to read.
C6_Witness ==
    /\ entry = "deduplicate" /\ options.use_disk
    /\ options.mode = "KeepLast"
    /\ pc = "done" /\ result = "InvalidArgument"
    /\ Len(input) > 0

\* C7: whenever `deduplicate` succeeds on a source and configuration,
\* `deduplicate_seekable` returns the same output and statistics on them;
\* and it never returns InvalidArgument, the disk-backed KeepLast and
\* RemoveAll included.
C7_SeekableSuperset ==
    (pc = "done" /\ entry = "deduplicate_seekable") =>
        LET d == call("deduplicate", input, start, options)
        IN  /\ d.result = "Ok" =>
                /\ result = "Ok"
                /\ output = d.output
                /\ stats = d.stats
            /\ result # "InvalidArgument"
            /\ (options.use_disk /\ options.mode # "KeepFirst") => result = "Ok"

\* C7's case: deduplicate_seekable has run the disk-backed KeepLast, which
\* `deduplicate` refuses, and written a line.
C7_Witness ==
    /\ pc = "done" /\ entry = "deduplicate_seekable"
    /\ options.use_disk /\ options.mode = "KeepLast"
    /\ result = "Ok" /\ stats.lines_written >= 1
    /\ call("deduplicate", input, start, options).result = "InvalidArgument"

\* The line the step about to be taken decides on: the buffered line of the
\* in-memory second passes, the line read from the source otherwise.
CurrentLine ==
    IF pc \in {"keep_last_pass2", "remove_all_pass2"}
    THEN lines[index + 1]
    ELSE read_until(input, pos)

\* The step counts a line as written.
WritesLine == stats'.lines_written = stats.lines_written + 1

\* C8 (as claimed): a kept line is written as its stripped content followed
\* by one "\n", whatever its terminator was.
C8_KeptLineNormalised ==
    [][(WritesLine /\ ~options.count) =>
          output' = output \o key_line(CurrentLine) \o <<LF>>]_vars

\* C8 (amended): a kept line is written with the bytes it was read with,
\* terminator included: with count off the step that keeps a line appends
\* exactly the line's bytes; with count on the two-pass modes append the
\* count field and then exactly the line's bytes.
C8_KeptLineVerbatim ==
    [][WritesLine =>
          IF ~options.count THEN output' = output \o CurrentLine
          ELSE options.mode # "KeepFirst" =>
                  \E n \in 1..stats.lines_read :
                      output' = output \o count_prefix(n) \o CurrentLine]_vars

\* C8's case: a run has kept a line that ends in "\r\n" and then a final
\* line without terminator, and written both as they were.
C8_Witness ==
    /\ Returned /\ ~options.count /\ ~options.show_removed
    /\ stats.lines_written = 2
    /\ Len(output) >= 4
    /\ \E i \in 1..(Len(output) - 1) : output[i] = CR /\ output[i + 1] = LF
    /\ output[Len(output)] # LF

\* C9: KeepFirst (count and show_removed off) run on its own output, with
\* the same options, returns that output unchanged and removes no line.
C9_KeepFirstIdempotent ==
    (Returned /\ options.mode = "KeepFirst"
        /\ ~options.count /\ ~options.show_removed) =>
        LET again == call(entry, output, 0, options)
        IN  /\ again.result = "Ok"
            /\ again.output = output
            /\ again.stats.lines_removed = 0
            /\ again.stats.lines_written = stats.lines_written

\* C9's case: a KeepFirst run that removed a duplicate and wrote lines.
C9_Witness ==
    /\ Returned /\ options.mode = "KeepFirst"
    /\ ~options.count /\ ~options.show_removed
    /\ stats.lines_removed >= 1 /\ stats.lines_written >= 2
    /\ options.ignore_case /\ options.column # <<>>

\* The terminators a line can end in: "\r\n", "\n", or none.
LineEnds == {<<CR, LF>>, <<LF>>, <<>>}

\* The content of a line: what precedes its terminator, the terminator
\* being the longest of LineEnds the line ends in.
Content(line) ==
    LET cs == {n \in 0..Len(line) :
                 \E e \in LineEnds : line = SubSeq(line, 1, n) \o e}
    IN  SubSeq(line, 1, CHOOSE n \in cs : \A m \in cs : n <= m)

\* The key of a line's content under the call's options.
ContentKey(line) == make_key(Content(line), options)

\* n in decimal, right-aligned in 7 characters, and one space (n < 10^7).
CountField(n) ==
    LET digits == to_string(n)
        pad == 7 - Len(digits)
    IN  [i \in 1..8 |-> IF i = 8 \/ i <= pad THEN 32 ELSE digits[i - pad]]

\* The "[REMOVED] " records of the lines of L whose index is not in `kept`,
\* if `shown`; from index i on.
RECURSIVE RemovedRecords(_, _, _, _)
RemovedRecords(L, kept, shown, i) ==
    IF i > Len(L) THEN <<>>
    ELSE (IF i \notin kept /\ shown THEN REMOVED \o L[i] ELSE <<>>)
         \o RemovedRecords(L, kept, shown, i + 1)

\* How many lines have the key K[i], K[j] being the key of line j.
KeyCount(K, i) == Cardinality({j \in 1..Len(K) : K[j] = K[i]})

\* The output of a two-pass mode with count set: the lines of L in order,
\* a kept one behind the count field of its key, a removed one behind
\* "[REMOVED] " if shown; from index i on.
RECURSIVE CountedInOrder(_, _, _, _, _)
CountedInOrder(L, K, kept, shown, i) ==
    IF i > Len(L) THEN <<>>
    ELSE (IF i \in kept THEN CountField(KeyCount(K, i)) \o L[i]
          ELSE IF shown THEN REMOVED \o L[i] ELSE <<>>)
         \o CountedInOrder(L, K, kept, shown, i + 1)

\* The kept lines of L, each behind the count field of its key; from index
\* i on.
RECURSIVE CountedKept(_, _, _, _)
CountedKept(L, K, kept, i) ==
    IF i > Len(L) THEN <<>>
    ELSE (IF i \in kept THEN CountField(KeyCount(K, i)) \o L[i] ELSE <<>>)
         \o CountedKept(L, K, kept, i + 1)

\* C10 (as claimed): the terminator is no part of the key, in either engine:
\* lines of equal content ("x\n", "x\r\n", a final "x") are duplicates in
\* every mode.  With ContentKey as the key, KeepFirst keeps the first line of
\* each key, KeepLast the last, RemoveAll the lines whose key no other line
\* has; every other line is removed; what is written for a kept line is
\* that line's own bytes, terminator included; and with count set the count
\* before a kept line is the number of lines of its key.
C10_TerminatorNotInKey ==
    Returned =>
        LET L == InputLines
            K == [i \in 1..Len(L) |-> ContentKey(L[i])]
            kept ==
                CASE options.mode = "KeepFirst" ->
                        {i \in 1..Len(L) : \A j \in 1..(i - 1) : K[j] # K[i]}
                  [] options.mode = "KeepLast" ->
                        {i \in 1..Len(L) : \A j \in (i + 1)..Len(L) : K[j] # K[i]}
                  [] options.mode = "RemoveAll" ->
                        {i \in 1..Len(L) : \A j \in 1..Len(L) : j # i => K[j] # K[i]}
        IN  /\ stats.lines_written = Cardinality(kept)
            /\ stats.lines_removed = Len(L) - Cardinality(kept)
            /\ ~options.count =>
                   output = Records(L, kept, options.show_removed, 1)
            /\ options.count =>
                   output =
                      IF options.mode = "KeepFirst"
                      THEN RemovedRecords(L, kept, options.show_removed, 1)
                           \o CountedKept(L, K, kept, 1)
                      ELSE CountedInOrder(L, K, kept, options.show_removed, 1)

\* C10's case: the content "a" read as "a\r\n", as "a\n" and as a final
\* "a" without terminator, in one input.
C10_Witness ==
    /\ Returned /\ ~options.count /\ options.show_removed
    /\ InputLines = <<<<97, CR, LF>>, <<97, LF>>, <<97>>>>
    /\ stats.lines_removed >= 2

\* ---------------------------------------------- sources handed over at 0

\* The source is handed over with its cursor at its start, as the callers
\* of this repository do (Cursor::new, File::open).
SourceAtStart == start = 0

\* On such a source C1's equality holds in both engines (under Spec).
StatsBalanceAtStart == SourceAtStart => C1_StatsBalance

\* On such a source the disk-backed engine equals the in-memory one except
\* in KeepFirst with count set (under Spec).
DiskSameAsMemoryAtStart ==
    (SourceAtStart /\ ~(options.mode = "KeepFirst" /\ options.count)) =>
        C2_DiskSameAsMemory

\* On such a source C4 and C5 hold in the disk-backed engine too (under
\* Spec).
TwoPassExactAtStart ==
    SourceAtStart =>
        /\ C4_KeepLastExact
        /\ C5_RemoveAllExact

\* On such a source C10 holds in the disk-backed engine too, except in
\* KeepFirst with count set (under Spec).
TerminatorNotInKeyAtStart ==
    (SourceAtStart
        /\ ~(options.mode = "KeepFirst" /\ options.count /\ options.use_disk)) =>
        C10_TerminatorNotInKey

\* ------------------------------------------------- calls that exercise keys

\* Most lines of an input drawn by KeyInit.
MaxKeyLines == 3

\* Largest column index drawn by KeyInit.
MaxColumn == 3

\* column: None, Some(0) .. Some(MaxColumn).
KeyColumns == {<<>>} \cup {<<i>> : i \in 0..MaxColumn}

KeyOptions ==
    [mode : Modes, ignore_case : BOOLEAN, count : {FALSE},
     show_removed : {FALSE}, column : KeyColumns, use_disk : {FALSE}]

\* Line contents for the key claims: "a\tb", "A\tb", " a"; three that are
\* not UTF-8: "a\xFF", "A\xFF", "a\xFE"; and two of Greek letters before a
\* no-break space, "\u{391}\u{3A3}\u{A0}b" and "\u{3B1}\u{3C3}\u{A0}b".
KeyContents ==
    {<<97, 9, 98>>, <<65, 9, 98>>, <<32, 97>>,
     <<97, 255>>, <<65, 255>>, <<97, 254>>,
     <<206, 145, 206, 163, 194, 160, 98>>,
     <<206, 177, 207, 131, 194, 160, 98>>}

\* The inputs of exactly n lines of KeyContents, each ended by "\n".
RECURSIVE KeyTexts(_)
KeyTexts(n) ==
    IF n = 0 THEN {<<>>}
    ELSE {t \o c \o <<LF>> : t \in KeyTexts(n - 1), c \in KeyContents}

KeyInputs == UNION {KeyTexts(n) : n \in 0..MaxKeyLines}

\* A call of the in-memory engine about to be made on a source at position 0.
KeyInit ==
    /\ entry \in Entries
    /\ options \in KeyOptions
    /\ input \in KeyInputs
    /\ start = 0
    /\ pc = "start"
    /\ pos = start
    /\ output = <<>>
    /\ stats = [lines_read |-> 0, lines_written |-> 0,
                lines_removed |-> 0, unique_lines |-> 0]
    /\ seen = <<>>
    /\ lines_for_count = <<>>
    /\ last_occurrence = <<>>
    /\ counts = <<>>
    /\ lines = <<>>
    /\ db = <<>>
    /\ index = 0
    /\ result = "none"

\* The calls whose keys come from columns, case folding and bytes that are
\* not UTF-8.
KeySpec == KeyInit /\ [][NextInMemory]_vars

\* The indices of the lines a mode keeps, K[i] being the key of line i:
\* KeepFirst the first line of each key, KeepLast the last, RemoveAll the
\* lines whose key no other line has.
KeptLines(K) ==
    LET n == Len(K)
    IN  CASE options.mode = "KeepFirst" ->
                {i \in 1..n : \A j \in 1..(i - 1) : K[j] # K[i]}
          [] options.mode = "KeepLast" ->
                {i \in 1..n : \A j \in (i + 1)..n : K[j] # K[i]}
          [] options.mode = "RemoveAll" ->
                {i \in 1..n : \A j \in 1..n : j # i => K[j] # K[i]}

\* The whitespace characters, each as the bytes that stand for it in a line:
\* TAB, LF, VT, FF, CR, SPACE, U+0085, U+00A0, U+1680, U+2000..U+200A,
\* U+2028, U+2029, U+202F, U+205F, U+3000.
WhiteSpaceEncodings ==
    {<<9>>, <<10>>, <<11>>, <<12>>, <<13>>,
     <<32>>, <<194, 133>>, <<194, 160>>, <<225, 154, 128>>, <<226, 128, 128>>,
     <<226, 128, 129>>, <<226, 128, 130>>, <<226, 128, 131>>, <<226, 128, 132>>, <<226, 128, 133>>,
     <<226, 128, 134>>, <<226, 128, 135>>, <<226, 128, 136>>, <<226, 128, 137>>, <<226, 128, 138>>,
     <<226, 128, 168>>, <<226, 128, 169>>, <<226, 128, 175>>, <<226, 129, 159>>, <<227, 128, 128>>}

\* How many bytes the whitespace character at position i of `content` takes,
\* 0 if none stands there.
SpaceAt(content, i) ==
    LET here == {e \in WhiteSpaceEncodings :
                    /\ i + Len(e) - 1 <= Len(content)
                    /\ SubSeq(content, i, i + Len(e) - 1) = e}
    IN  IF here = {} THEN 0 ELSE Len(CHOOSE e \in here : TRUE)

\* The bytes of `content` that belong to whitespace characters.
RECURSIVE SpaceBytes(_, _)
SpaceBytes(content, i) ==
    IF i > Len(content) THEN {}
    ELSE LET n == SpaceAt(content, i)
         IN  IF n = 0 THEN SpaceBytes(content, i + 1)
             ELSE (i..(i + n - 1)) \cup SpaceBytes(content, i + n)

\* The positions at which a whitespace-separated token of `content` starts.
TokenStarts(content) ==
    LET W == SpaceBytes(content, 1)
    IN  {i \in 1..Len(content) : i \notin W /\ (i = 1 \/ (i - 1) \in W)}

\* The token of `content` that starts at position i.
TokenAt(content, i) ==
    LET W == SpaceBytes(content, 1)
        ends == {j \in i..Len(content) : \A k \in i..j : k \notin W}
    IN  SubSeq(content, i, CHOOSE j \in ends : \A k \in ends : k <= j)

\* The key of `content` under column col (1-based): the bytes of its col-th
\* token, or the content itself when col is 0 or there is no such token.
ColumnKey(content, col) ==
    LET S == TokenStarts(content)
    IN  IF col >= 1 /\ col <= Cardinality(S)
        THEN TokenAt(content,
                     CHOOSE i \in S : Cardinality({j \in S : j <= i}) = col)
        ELSE content

\* C11 (as claimed): with column = i and ignore_case off, the key of every
\* line is the bytes of the i-th whitespace-separated token of its stripped
\* content, or the whole stripped content when i is 0 or exceeds the number
\* of tokens; and the run keeps and removes lines by that key.
C11_ColumnKey ==
    (Returned /\ options.column # <<>> /\ ~options.ignore_case) =>
        LET L == InputLines
            K == [i \in 1..Len(L) |-> ColumnKey(Content(L[i]), options.column[1])]
            kept == KeptLines(K)
        IN  /\ \A i \in 1..Len(L) : Key(L[i]) = K[i]
            /\ stats.lines_written = Cardinality(kept)
            /\ stats.lines_removed = Len(L) - Cardinality(kept)
            /\ output = Records(L, kept, options.show_removed, 1)

\* Every byte of every line of the input is ASCII.
AsciiInput == \A i \in 1..Len(input) : input[i] < 128

\* On an input of ASCII bytes C11's statement holds (under KeySpec).
ColumnKeyOnAscii == AsciiInput => C11_ColumnKey

\* ----------------------------------------------------------- case folding

\* `bytes` is well-formed UTF-8 (the Unicode standard's table of well-formed
\* byte sequences): how many bytes the sequence at its head takes, 0 if
\* there is none.
Utf8Head(bytes) ==
    LET n == Len(bytes)
        h == bytes[1]
        cont(i) == i <= n /\ bytes[i] >= 128 /\ bytes[i] <= 191
    IN  CASE h <= 127 -> 1
          [] h >= 194 /\ h <= 223 -> IF cont(2) THEN 2 ELSE 0
          [] h >= 224 /\ h <= 239 ->
                IF /\ cont(2) /\ cont(3)
                   /\ h = 224 => bytes[2] >= 160
                   /\ h = 237 => bytes[2] <= 159
                THEN 3 ELSE 0
          [] h >= 240 /\ h <= 244 ->
                IF /\ cont(2) /\ cont(3) /\ cont(4)
                   /\ h = 240 => bytes[2] >= 144
                   /\ h = 244 => bytes[2] <= 143
                THEN 4 ELSE 0
          [] OTHER -> 0

RECURSIVE WellFormedUtf8(_)
WellFormedUtf8(bytes) ==
    IF bytes = <<>> THEN TRUE
    ELSE LET n == Utf8Head(bytes)
         IN  n > 0 /\ WellFormedUtf8(SubSeq(bytes, n + 1, Len(bytes)))

\* On an input that is UTF-8 text from end to end, letters and whitespace
\* outside ASCII included, C11's statement holds (under KeySpec).
ColumnKeyOnUtf8 == WellFormedUtf8(input) => C11_ColumnKey

\* Two byte strings of UTF-8 text that are equal but for the case of
\* letters: char by char, the two have the same lowercase letter.
DiffersOnlyInCase(a, b) ==
    LET ca == chars(a)
        cb == chars(b)
    IN  /\ Len(ca) = Len(cb)
        /\ \A i \in 1..Len(ca) : to_lower(ca[i]) = to_lower(cb[i])

\* The column-reduced content of a line: what is keyed before case folding.
Reduced(line) == make_key(key_line(line), [options EXCEPT !.ignore_case = FALSE])

\* Two lines are the same under ignore_case: their reduced contents are
\* UTF-8 text equal but for letter case, or they are the same bytes.
SameFolded(a, b) ==
    IF WellFormedUtf8(Reduced(a)) /\ WellFormedUtf8(Reduced(b))
    THEN DiffersOnlyInCase(Reduced(a), Reduced(b))
    ELSE Reduced(a) = Reduced(b)

\* C12 (as claimed): with ignore_case set the run returns Ok whatever the bytes; a line
\* whose reduced content is not UTF-8 is keyed by that content's raw bytes;
\* two lines have the same key iff they are the same under ignore_case; the
\* run keeps and removes lines by that relation, writes each kept line with
\* its own bytes (its casing as read), and unique_lines counts the classes
\* of the relation (in RemoveAll, the classes of one line).
C12_IgnoreCase ==
    (pc = "done" /\ options.ignore_case) =>
        LET L == InputLines
            K == [i \in 1..Len(L) |->
                     CHOOSE j \in 1..Len(L) :
                        /\ SameFolded(L[i], L[j])
                        /\ \A k \in 1..(j - 1) : ~SameFolded(L[i], L[k])]
            kept == KeptLines(K)
        IN  /\ result = "Ok"
            /\ \A i \in 1..Len(L) :
                  ~WellFormedUtf8(Reduced(L[i])) => Key(L[i]) = Reduced(L[i])
            /\ \A i, j \in 1..Len(L) :
                  (Key(L[i]) = Key(L[j])) <=> SameFolded(L[i], L[j])
            /\ stats.lines_written = Cardinality(kept)
            /\ stats.lines_removed = Len(L) - Cardinality(kept)
            /\ output = Records(L, kept, options.show_removed, 1)
            /\ stats.unique_lines =
                  IF options.mode = "RemoveAll" THEN Cardinality(kept)
                  ELSE Cardinality({K[i] : i \in 1..Len(L)})

\* The input holds a capital sigma (CE A3) or a capital I with dot above
\* (C4 B0), the letters whose lowercase depends on their neighbours or is
\* more than one char.
ContextualCase ==
    \E i \in 1..(Len(input) - 1) :
        \/ input[i] = 206 /\ input[i + 1] = 163
        \/ input[i] = 196 /\ input[i + 1] = 176

\* On an input without those letters C12's statement holds (under KeySpec).
IgnoreCaseWithoutContextualCase == ~ContextualCase => C12_IgnoreCase

\* KeepFirst with ignore_case over "A\tb", "a\tb", "A\xFF": the second line
\* is a duplicate of the first, which is written with its capital letter;
\* the third is not UTF-8, is kept, and the run returns Ok.
IgnoreCaseAsciiRun ==
    /\ Returned /\ options.mode = "KeepFirst"
    /\ options.ignore_case /\ options.column = <<>>
    /\ InputLines = <<<<65, 9, 98, LF>>, <<97, 9, 98, LF>>, <<65, 255, LF>>>>
    /\ output = <<65, 9, 98, LF, 65, 255, LF>>
    /\ stats.unique_lines = 2

\* KeepFirst with ignore_case over the two lines "\u{391}\u{3A3}\u{A0}b" and
\* "\u{3B1}\u{3C3}\u{A0}b", which differ only in letter case: the capital
\* sigma ends a word and is lowercased to final sigma, so the keys differ
\* and both lines are written.
FinalSigmaRun ==
    /\ Returned /\ options.mode = "KeepFirst"
    /\ options.ignore_case /\ options.column = <<>>
    /\ InputLines = <<<<206, 145, 206, 163, 194, 160, 98, LF>>,
                      <<206, 177, 207, 131, 194, 160, 98, LF>>>>
    /\ output = input
    /\ stats.unique_lines = 2

\* ------------------------------------------------------------------ counts

\* The lines the run has consumed: those between the position the source
\* was handed over at and its cursor.
ConsumedLines == split_lines(SubSeq(input, 1, pos), start)

\* How many lines of L have the key of line i.
Occurrences(L, i) == Cardinality({j \in 1..Len(L) : Key(L[j]) = Key(L[i])})

\* The lines of L whose index is in `kept`, each behind the count field of
\* its key's occurrences in L; from index i on.
RECURSIVE CountRecords(_, _, _)
CountRecords(L, kept, i) ==
    IF i > Len(L) THEN <<>>
    ELSE (IF i \in kept THEN CountField(Occurrences(L, i)) \o L[i] ELSE <<>>)
         \o CountRecords(L, kept, i + 1)

\* C13 (as claimed): KeepFirst with count set, in either engine.  While the
\* input is being read the output holds no kept line (nothing but the
\* "[REMOVED] " records, if shown); the run that has returned has written,
\* behind those, every first occurrence once, in input order, each behind
\* the count field of the number of input lines that share its key.
C13_KeepFirstCountDeferred ==
    (options.mode = "KeepFirst" /\ options.count) =>
        /\ pc \in {"keep_first", "keep_first_disk"} =>
              LET C == ConsumedLines
              IN  output = RemovedRecords(C, FirstOccurrences(C),
                                          options.show_removed, 1)
        /\ Returned =>
              LET L == InputLines
              IN  output = RemovedRecords(L, FirstOccurrences(L),
                                          options.show_removed, 1)
                           \o CountRecords(L, FirstOccurrences(L), 1)

\* In both engines no kept line is written while the input is read (under
\* Spec).
KeepFirstCountNothingKeptWhileReading ==
    (options.mode = "KeepFirst" /\ options.count
        /\ pc \in {"keep_first", "keep_first_disk"}) =>
        output = RemovedRecords(ConsumedLines, FirstOccurrences(ConsumedLines),
                                options.show_removed, 1)

\* C13's statement holds in the in-memory engine (under Spec).
KeepFirstCountDeferredInMemory ==
    ~options.use_disk => C13_KeepFirstCountDeferred

\* C13's case: the run has returned with two kept lines behind their
\* counts, the first of them counted twice ("      2 ").
C13_Witness ==
    /\ Returned /\ options.mode = "KeepFirst" /\ options.count
    /\ ~options.show_removed
    /\ stats.lines_written = 2 /\ stats.lines_removed = 1
    /\ SubSeq(output, 1, 8) = <<32, 32, 32, 32, 32, 32, 50, 32>>

\* C14: in KeepLast with count set, in either engine, the step that keeps a
\* line appends the count field of the number of lines of the whole input
\* that share the line's key, and then the line.
C14_KeepLastCount ==
    [][(options.mode = "KeepLast" /\ options.count /\ WritesLine) =>
          LET L == InputLines
              n == Cardinality({j \in 1..Len(L) : Key(L[j]) = Key(CurrentLine)})
          IN  output' = output \o CountField(n) \o CurrentLine]_vars

\* C14's case: the disk-backed KeepLast with count over a, b, a (by key)
\* has written b behind the count 1 and the last a behind the count 2.
C14_Witness ==
    /\ Returned /\ options.mode = "KeepLast" /\ options.count
    /\ options.use_disk /\ ~options.show_removed
    /\ Len(InputLines) = 3
    /\ Key(InputLines[1]) = Key(InputLines[3])
    /\ output = <<32, 32, 32, 32, 32, 32, 49, 32>> \o InputLines[2]
                \o <<32, 32, 32, 32, 32, 32, 50, 32>> \o InputLines[3]

\* ----------------------------------------------------------- removed lines

\* The step counts a line as removed.
RemovesLine == stats'.lines_removed = stats.lines_removed + 1

\* The number of "[REMOVED] " markers in `out`.
Markers(out) ==
    Cardinality({i \in 1..(Len(out) - Len(REMOVED) + 1) :
                    SubSeq(out, i, i + Len(REMOVED) - 1) = REMOVED})

\* C15: the step that removes a line appends, with show_removed set,
\* "[REMOVED] " and the line as it was read, terminator included, and with
\* show_removed unset nothing; and in every state the output holds as many
\* markers as lines have been removed if show_removed is set, none if not.
C15_RemovedShown ==
    /\ [](Markers(output) = IF options.show_removed THEN stats.lines_removed ELSE 0)
    /\ [][RemovesLine =>
             output' = output \o (IF options.show_removed
                                  THEN REMOVED \o CurrentLine ELSE <<>>)]_vars

\* C15's case: a run with show_removed set has removed two lines and its
\* output ends with the marker and the bytes of the last input line.
C15_Witness ==
    /\ Returned /\ options.show_removed
    /\ stats.lines_removed = 2 /\ Markers(output) = 2
    /\ Len(InputLines) = 3
    /\ ends_with(output, REMOVED \o InputLines[3])

\* ------------------------------------------------------------- empty input

\* C16: a call on an input with no byte left to read writes nothing and
\* leaves the four counters at zero, in every state of the run, in every
\* mode, with every flag and in both engines; it returns Ok, or
\* InvalidArgument where `deduplicate` refuses the configuration (C6).
C16_EmptyInput ==
    InputLines = <<>> =>
        /\ output = <<>>
        /\ stats = [lines_read |-> 0, lines_written |-> 0,
                    lines_removed |-> 0, unique_lines |-> 0]
        /\ pc = "done" =>
              IF entry = "deduplicate" /\ options.use_disk
                    /\ options.mode # "KeepFirst"
              THEN result = "InvalidArgument"
              ELSE result = "Ok"

\* C16's case: the disk-backed RemoveAll, with count and show_removed set,
\* has returned from a source of no bytes.
C16_Witness ==
    /\ Returned /\ input = <<>>
    /\ options.mode = "RemoveAll" /\ options.use_disk
    /\ options.count /\ options.show_removed

\* --------------------------------------------------------------- streaming

\* C17: KeepFirst without count is streaming, in either engine: in every
\* state of the run the output is the complete KeepFirst output of the lines
\* consumed so far (their first occurrences as read, the others behind
\* "[REMOVED] " if shown), so a line's record is written by the step that
\* reads the line, before the next line is read.
C17_KeepFirstStreaming ==
    (options.mode = "KeepFirst" /\ ~options.count /\ pc # "start") =>
        LET C == ConsumedLines
        IN  /\ output = Records(C, FirstOccurrences(C), options.show_removed, 1)
            /\ stats.lines_read = Len(C)
            /\ stats.lines_written = Cardinality(FirstOccurrences(C))

\* C17's case: the disk-backed read loop is under way, with a line kept, a
\* line removed and input left to read.
C17_Witness ==
    /\ pc = "keep_first_disk" /\ ~options.count /\ ~Eof
    /\ stats.lines_written >= 1 /\ stats.lines_removed >= 1
    /\ output # <<>>

\* ---------------------------------------------------------------- counters

\* The call is in its first (or only) pass, the one that reads the input.
FirstPass ==
    pc \in {"keep_first", "keep_first_disk", "keep_last_pass1",
            "remove_all_pass1", "keep_last_disk_pass1", "remove_all_disk_pass1"}

\* The call is in the pass that decides what is kept and what is removed.
DecidingPass ==
    pc \in {"keep_first", "keep_first_disk", "keep_last_pass2",
            "remove_all_pass2", "keep_last_disk_pass2", "remove_all_disk_pass2"}

\* No more lines are counted as written or removed than have been read.
CountersBounded ==
    stats.lines_written + stats.lines_removed <= stats.lines_read

\* What a step does to the counters: none decreases; lines_read grows by one
\* with each line the first pass reads and never otherwise; lines_written
\* and lines_removed grow only in the deciding pass, one of them by one.
CountersStep ==
    /\ stats'.lines_written >= stats.lines_written
    /\ stats'.lines_removed >= stats.lines_removed
    /\ stats'.unique_lines >= stats.unique_lines
    /\ stats'.lines_read =
          stats.lines_read + (IF FirstPass /\ ~Eof THEN 1 ELSE 0)
    /\ (stats'.lines_written # stats.lines_written
            \/ stats'.lines_removed # stats.lines_removed) =>
          /\ DecidingPass
          /\ stats'.lines_written + stats'.lines_removed =
                stats.lines_written + stats.lines_removed + 1

\* C18 (as claimed): every step changes the counters as CountersStep says,
\* and in every reachable state lines_written + lines_removed <= lines_read.
C18_Counters ==
    /\ []CountersBounded
    /\ [][CountersStep]_vars

\* Every step changes the counters as CountersStep says (under Spec).
CountersStepAlways == [][CountersStep]_vars

\* On a source handed over at position 0 the counters are bounded in every
\* state (under Spec).
CountersBoundedAtStart == SourceAtStart => CountersBounded

\* --------------------------------------------------- the disk-backed replay

\* The call is in the second pass of a disk-backed two-pass algorithm.
DiskPass2 == pc \in {"keep_last_disk_pass2", "remove_all_disk_pass2"}

\* The lines pass 2 has yet to read are the lines pass 1 read, from some
\* line on, and in KeepLast the index pass 2 gives the next line is the one
\* pass 1 gave it.
ReplaysPass1 ==
    \E k \in 0..Len(InputLines) :
        /\ split_lines(input, pos) = SubSeq(InputLines, k + 1, Len(InputLines))
        /\ pc = "keep_last_disk_pass2" => index = k

\* C19 (as claimed): in the disk-backed KeepLast and RemoveAll, wherever the
\* cursor stood when deduplicate_seekable was called, pass 2 replays the
\* lines pass 1 read, with their indices, and every line of pass 2 finds its
\* key in the store and is counted as written or as removed.
C19_Pass2ReplaysPass1 ==
    /\ [](DiskPass2 => ReplaysPass1)
    /\ [][(DiskPass2 /\ ~Eof) =>
             /\ Key(CurrentLine) \in DOMAIN db
             /\ WritesLine \/ RemovesLine]_vars

\* On a source handed over at position 0 C19's statement holds (under Spec).
ReplaysPass1AtStart ==
    /\ [](SourceAtStart /\ DiskPass2 => ReplaysPass1)
    /\ [][(SourceAtStart /\ DiskPass2 /\ ~Eof) =>
             /\ Key(CurrentLine) \in DOMAIN db
             /\ WritesLine \/ RemovesLine]_vars

\* ----------------------------------------------------- records and lines

\* Position i of `out` is the beginning of an output line.
LineStart(out, i) == i = 1 \/ out[i - 1] = LF

\* C20 (as claimed): every record starts at the beginning of an output
\* line: a step that writes appends to an output that is empty or ends in
\* "\n", and every "[REMOVED] " marker in the output stands at the beginning
\* of a line.
C20_RecordsStartLines ==
    /\ [](\A i \in 1..(Len(output) - Len(REMOVED) + 1) :
             SubSeq(output, i, i + Len(REMOVED) - 1) = REMOVED =>
                LineStart(output, i))
    /\ [][output' # output => LineStart(output, Len(output) + 1)]_vars

\* With count unset, or show_removed unset, or in KeepLast or RemoveAll,
\* C20's statement holds (under Spec): records are written in input order
\* and only the last input line can lack a terminator.
RecordsStartLinesInOrder ==
    /\ [](~(options.mode = "KeepFirst" /\ options.count /\ options.show_removed) =>
             \A i \in 1..(Len(output) - Len(REMOVED) + 1) :
                SubSeq(output, i, i + Len(REMOVED) - 1) = REMOVED =>
                   LineStart(output, i))
    /\ [][(~(options.mode = "KeepFirst" /\ options.count /\ options.show_removed)
             /\ output' # output) => LineStart(output, Len(output) + 1)]_vars

\* ------------------------------------------------- written and unique lines

\* The call with count and show_removed unset, run to its return.
PlainCall ==
    call(entry, input, start,
         [options EXCEPT !.count = FALSE, !.show_removed = FALSE])

\* C21 (as claimed): a run that returns Ok, in either engine, has
\* lines_written = unique_lines, which is the number of distinct keys of the
\* input in KeepFirst and KeepLast and the number of keys that occur exactly
\* once in RemoveAll; and the statistics are those of the same call with
\* count and show_removed unset.
C21_WrittenIsUnique ==
    Returned =>
        LET L == InputLines
        IN  /\ stats.lines_written = stats.unique_lines
            /\ stats.unique_lines =
                  IF options.mode = "RemoveAll"
                  THEN Cardinality(SingleOccurrences(L))
                  ELSE Cardinality(DistinctKeys(L))
            /\ stats = PlainCall.stats

\* C21's case: RemoveAll with count and show_removed set has returned from
\* an input of three lines of two keys: one line written, two removed, one
\* unique.
C21_Witness ==
    /\ Returned /\ options.mode = "RemoveAll"
    /\ options.count /\ options.show_removed
    /\ Len(InputLines) = 3
    /\ Cardinality(DistinctKeys(InputLines)) = 2
    /\ stats.lines_written = 1 /\ stats.unique_lines = 1

\* On a source handed over at position 0 C21's statement holds in the
\* disk-backed engine too (under Spec).
WrittenIsUniqueAtStart == SourceAtStart => C21_WrittenIsUnique

\* ----------------------------------------------------------- read failures

\* `reader.read_until(b'\n', &mut line)?` returning Err in the read loop of
\* deduplicate_keep_first: the call returns Err(Error::Io) at once.  The
\* read had consumed n bytes of the line before it failed.
keep_first_read_fails(s, n) ==
    return([s EXCEPT !.pos = @ + n], "Io")

\* keep_last_read_fails taking the failed read for the end of the input and
\* going on to the second pass.
keep_last_read_fails_as_eof(s, n) ==
    keep_last_pass1_end([s EXCEPT !.pos = @ + n])

\* The same failure in the first pass of deduplicate_keep_last.
keep_last_read_fails(s, n) ==
    return([s EXCEPT !.pos = @ + n], "Io")

\* The same failure in the first pass of deduplicate_remove_all.
remove_all_read_fails(s, n) ==
    return([s EXCEPT !.pos = @ + n], "Io")

\* The bytes a read that fails can have consumed: any number of the bytes
\* of the line it was reading (none at the end of the source).
Consumable == 0..Len(read_until(input, pos))

KeepFirstReadFails ==
    /\ pc = "keep_first"
    /\ \E n \in Consumable : Becomes(keep_first_read_fails(State, n))

KeepLastReadFails ==
    /\ pc = "keep_last_pass1"
    /\ \E n \in Consumable : Becomes(keep_last_read_fails(State, n))

RemoveAllReadFails ==
    /\ pc = "remove_all_pass1"
    /\ \E n \in Consumable : Becomes(remove_all_read_fails(State, n))

\* The steps of the in-memory engine on a source whose reads can fail.
NextFailing ==
    \/ NextInMemory
    \/ KeepFirstReadFails
    \/ KeepLastReadFails
    \/ RemoveAllReadFails

\* The calls of the in-memory engine on a source any read of which can fail.
FailingSpec == InitInMemory /\ [][NextFailing]_vars

\* The call has returned Err(Error::Io): there are no statistics.
Failed == pc = "done" /\ result = "Io"

\* C22: in the in-memory KeepLast and RemoveAll, on a source whose reads can
\* fail, the output holds a byte only once the whole input has been read
\* (the buffered lines are the input's lines and the first pass is over);
\* a read failure ends the call with the I/O error, and the call that has
\* ended so has written nothing.
C22_NothingWrittenBeforeInputRead ==
    options.mode \in {"KeepLast", "RemoveAll"} =>
        /\ output # <<>> =>
              /\ lines = InputLines
              /\ pc \in {"keep_last_pass2", "remove_all_pass2", "done"}
              /\ result # "Io"
        /\ result = "Io" => pc = "done" /\ output = <<>>
        /\ pc = "done" => result \in {"Ok", "Io"}

\* C22's case: the first pass of KeepLast had read two of the three lines
\* of the input when a read failed.
C22_Witness ==
    /\ Failed /\ options.mode = "KeepLast"
    /\ Len(InputLines) = 3 /\ Len(lines) = 2
    /\ output = <<>>

====
